---------------------------- MODULE Spec2Model ----------------------------
(***************************************************************************)
(* A model of the db_tools package: the DDL manager (statement splitter,   *)
(* statement execution, DDL file selection and ordering, construction),    *)
(* and the connection configuration resolver (environment detection, .env  *)
(* loading, configuration resolution).                                     *)
(*                                                                         *)
(* Texts (SQL sources, statements, error messages, file names, .env        *)
(* lines) are sequences of one-character strings, so that the string       *)
(* operations of the code (strip, split, find, startswith, "in") are       *)
(* computed and not assumed.                                               *)
(***************************************************************************)
EXTENDS Integers, Sequences, FiniteSets, TLC

VARIABLES
    op,            \* the operation applied last ("none" before any)
    ddl_content,   \* the DDL text handed to the splitter / to execute_ddl
    statements,    \* the list returned by _split_sql_statements
    cuts,          \* the input lines (1-based) after which the splitter closed a statement
    attempted,     \* the statements handed to cursor.execute, in order
    skipped,       \* the indices of the failed statements classified as non-fatal
    result,        \* the DDLExecutionResult returned by execute_ddl
    cleaned,       \* the text _clean_ddl_content returned (<<None>> before)
    environ,       \* os.environ: a function from the names that are set to their values
    environ0,      \* os.environ as it was when the resolver's construction began
    dockerenv,     \* whether the file /.dockerenv exists
    dns,           \* the host names socket.gethostbyname resolves
    env_file,      \* the first existing .env file of the search path: its found flag and text
    dotenv,        \* whether the python-dotenv package can be imported
    environment,   \* the resolver's environment attribute
    reachable,     \* the hosts that accepted a TCP connection during the last call
    probes,        \* the hosts handed to _test_connection_host during the last call, in order
    config,        \* what get_database_config returned or raised
    diagnostics,   \* the dictionary get_diagnostics returned
    sql_directory, \* the SQL directory: whether it exists and the names of its files
    database_up,   \* whether the database server accepts connections
    manager,       \* what DDLManager(...) returned or raised
    pool,          \* the connection pool: whether it was created, the connections asked for and open
    ddl_files,     \* the dictionary get_ddl_files returned: key to file name
    ddl_cache,     \* the files whose text load_ddl_file holds
    results,       \* the list create_all_tables returned
    _db_manager,   \* the module's global _db_manager: 0 for None, or the number of an instance
    db_managers,   \* the DatabaseManager instances created so far, with their pools' state
    callers,       \* for each thread, where it is in get_database_manager and what it got
    requirements,  \* the registry entry of the table checked (the empty entry when none)
    actual_schema, \* what _get_table_schema returns: None, or the live columns and their types
    report,        \* the ValidationReport check_table_compatibility returned
    override_config, \* the overrides handed to DatabaseValidator(...): field to value
    platforms_arg, \* the platforms argument of validate_full_stack (<<None>> when omitted)
    auto_repair,   \* the auto_repair argument of validate_full_stack
    db_answer,     \* what psycopg2.connect and SELECT 1 do on a reachable host
    schema_answers,\* what the schema validator answers: first pass, repairs, second pass
    schema_calls,  \* the calls validate_full_stack made on the schema side, in order
    validation,    \* the DatabaseValidationResult validate_full_stack returned
    live_pool,     \* ConnectionPool.pool: whether it is set, and the connections it holds idle
    scopes,        \* for each thread, its latest "with pool.get_connection()" block
    clock,         \* the time, in ticks
    acquisition,   \* for each thread, when its latest getconn() was called and answered
    retry_config,  \* the pool's retry_attempts and retry_delay, and the call's read_only
    plan,          \* what each attempt of execute_with_retry will meet, in order
    attempt,       \* the loop variable of execute_with_retry
    invocations,   \* the attempts (0-based) in which the operation was invoked, in order
    sleeps,        \* the arguments of time.sleep, in order
    retried,       \* what execute_with_retry returned or raised
    commits,       \* the number of connection.commit() calls made so far
    all_reports    \* the dictionary validate_all_tables returned

ddlVars == <<ddl_content, statements, cuts, attempted, skipped, result, cleaned>>

resVars == <<environ, environ0, dockerenv, dns, env_file, dotenv, environment,
             reachable, probes, config, diagnostics>>

mgrVars == <<sql_directory, database_up, manager, pool, ddl_files, ddl_cache, results,
             _db_manager, db_managers, callers>>

chkVars == <<requirements, actual_schema, report>>

fsVars == <<override_config, platforms_arg, auto_repair, db_answer, schema_answers,
            schema_calls, validation>>

poolVars == <<live_pool, scopes, clock, acquisition>>

retryVars == <<retry_config, plan, attempt, invocations, sleeps, retried, commits,
              all_reports>>

valVars == <<chkVars, fsVars, poolVars, retryVars>>

vars == <<op, ddlVars, resVars, mgrVars, valVars>>

None == "None"

--------------------------------------------------------------------------
(* Python string operations on sequences of characters.                    *)

Chars(str) == [i \in 1..Len(str) |-> SubSeq(str, i, i)]

Min(S) == CHOOSE m \in S : \A n \in S : m <= n

IsSpace(c) == c \in {" ", "\n", "\t"}

RECURSIVE LStrip(_)
LStrip(s) ==
    IF s = <<>> THEN s
    ELSE IF IsSpace(Head(s)) THEN LStrip(Tail(s)) ELSE s

RECURSIVE RStrip(_)
RStrip(s) ==
    IF s = <<>> THEN s
    ELSE IF IsSpace(s[Len(s)]) THEN RStrip(SubSeq(s, 1, Len(s) - 1)) ELSE s

\* str.strip()
Strip(s) == RStrip(LStrip(s))

\* s[a:b] with 0-based a and b, 0 <= a
Slice(s, a, b) == SubSeq(s, a + 1, IF b > Len(s) THEN Len(s) ELSE b)

\* str.startswith(p)
StartsWith(s, p) == Len(p) <= Len(s) /\ SubSeq(s, 1, Len(p)) = p

\* str.endswith(p)
EndsWith(s, p) == Len(p) <= Len(s) /\ SubSeq(s, Len(s) - Len(p) + 1, Len(s)) = p

\* str.find(p, start): the 0-based position of the first occurrence at or
\* after start, -1 when there is none
Find(s, p, start) ==
    LET at == {i \in start..(Len(s) - Len(p)) : SubSeq(s, i + 1, i + Len(p)) = p}
    IN  IF at = {} THEN -1 ELSE Min(at)

\* p in s
Contains(s, p) == Find(s, p, 0) # -1

\* str.split(c) for a one-character separator
RECURSIVE Split(_, _)
Split(s, c) ==
    LET at == {i \in 1..Len(s) : s[i] = c}
    IN  IF at = {} THEN <<s>>
        ELSE <<SubSeq(s, 1, Min(at) - 1)>> \o Split(SubSeq(s, Min(at) + 1, Len(s)), c)

\* c.join(parts)
RECURSIVE Join(_, _)
Join(parts, c) ==
    IF parts = <<>> THEN <<>>
    ELSE IF Len(parts) = 1 THEN parts[1]
    ELSE parts[1] \o <<c>> \o Join(Tail(parts), c)

UpperCase == Chars("ABCDEFGHIJKLMNOPQRSTUVWXYZ")
LowerCase == Chars("abcdefghijklmnopqrstuvwxyz")

\* str.lower()
Lower(s) ==
    [i \in 1..Len(s) |->
        IF \E k \in 1..Len(UpperCase) : UpperCase[k] = s[i]
        THEN LowerCase[CHOOSE k \in 1..Len(UpperCase) : UpperCase[k] = s[i]]
        ELSE s[i]]

--------------------------------------------------------------------------
(* DDLManager._split_sql_statements and _clean_inline_comments             *)

DD == Chars("$$")
DashDash == Chars("--")

\* one line of _clean_inline_comments: the stripped line, cut at the first
\* "--" when the line holds no quote
CleanLine(raw) ==
    LET line == Strip(raw)
    IN  IF line # <<>> /\ ~StartsWith(line, DashDash)
        THEN IF Contains(line, DashDash)
                /\ ~(Contains(line, <<"'">>) \/ Contains(line, <<"\"">>))
             THEN Strip(Slice(line, 0, Find(line, DashDash, 0)))
             ELSE line
        ELSE <<>>

_clean_inline_comments(statement) ==
    LET lines == Split(statement, "\n")
        clean_lines == SelectSeq([i \in 1..Len(lines) |-> CleanLine(lines[i])],
                                 LAMBDA l : l # <<>>)
    IN  Join(clean_lines, "\n")

\* the while loop collecting the positions of "$$" in a line
RECURSIVE DollarPositions(_, _)
DollarPositions(line, i) ==
    IF i < Len(line) - 1
    THEN IF Slice(line, i, i + 2) = DD
         THEN <<i>> \o DollarPositions(line, i + 2)
         ELSE DollarPositions(line, i + 1)
    ELSE <<>>

\* the text between the "$$" at pos and the next "$$" of the line
TagAt(line, pos) ==
    LET tag_start == pos + 2
        tag_end == Find(line, DD, tag_start)
    IN  IF tag_end # -1 THEN Slice(line, tag_start, tag_end) ELSE <<>>

\* the for loop over dollar_positions
RECURSIVE TrackDollar(_, _, _)
TrackDollar(line, positions, blk) ==
    IF positions = <<>> THEN blk
    ELSE LET pos == Head(positions)
             next == IF ~blk.in_dollar_block
                     THEN [in_dollar_block |-> TRUE, dollar_tag |-> TagAt(line, pos)]
                     ELSE IF TagAt(line, pos) = blk.dollar_tag
                          THEN [in_dollar_block |-> FALSE, dollar_tag |-> <<None>>]
                          ELSE blk
         IN  TrackDollar(line, Tail(positions), next)

\* the statement list with the accumulated statement added, when it is kept
AppendStatement(stmts, current_statement) ==
    LET stmt == Strip(current_statement)
    IN  IF stmt # <<>> /\ ~StartsWith(stmt, DashDash) /\ ~StartsWith(stmt, Chars("/*"))
        THEN LET cleaned_stmt == _clean_inline_comments(stmt)
             IN  IF cleaned_stmt # <<>> THEN Append(stmts, cleaned_stmt) ELSE stmts
        ELSE stmts

ClosesStatementIgnoringBlock(in_dollar_block, stripped_line) ==
    EndsWith(stripped_line, <<";">>)

\* the statement boundary test made after a line was added
ClosesStatement(in_dollar_block, stripped_line) ==
    ~in_dollar_block /\ EndsWith(stripped_line, <<";">>)

\* the body of the for loop over the lines, for line number n
SplitLine(st, line, n) ==
    LET stripped_line == Strip(line)
    IN  IF stripped_line = <<>> \/ StartsWith(stripped_line, DashDash)
        THEN IF Strip(st.current_statement) # <<>>
             THEN [st EXCEPT !.current_statement = @ \o line \o <<"\n">>]
             ELSE st
        ELSE LET blk == IF Contains(line, DD)
                        THEN TrackDollar(line, DollarPositions(line, 0),
                                 [in_dollar_block |-> st.in_dollar_block,
                                  dollar_tag |-> st.dollar_tag])
                        ELSE [in_dollar_block |-> st.in_dollar_block,
                              dollar_tag |-> st.dollar_tag]
                 cur == st.current_statement \o line \o <<"\n">>
             IN  IF ClosesStatement(blk.in_dollar_block, stripped_line)
                 THEN [statements |-> AppendStatement(st.statements, cur),
                       current_statement |-> <<>>,
                       in_dollar_block |-> blk.in_dollar_block,
                       dollar_tag |-> blk.dollar_tag,
                       cuts |-> st.cuts \cup {n}]
                 ELSE [st EXCEPT !.current_statement = cur,
                                 !.in_dollar_block = blk.in_dollar_block,
                                 !.dollar_tag = blk.dollar_tag]

RECURSIVE SplitLines(_, _, _)
SplitLines(st, lines, n) ==
    IF n > Len(lines) THEN st
    ELSE SplitLines(SplitLine(st, lines[n], n), lines, n + 1)

\* the splitter's state after the last line
SplitScan(content) ==
    SplitLines([statements |-> <<>>, current_statement |-> <<>>,
                in_dollar_block |-> FALSE, dollar_tag |-> <<None>>, cuts |-> {}],
               Split(content, "\n"), 1)

_split_sql_statements(content) ==
    LET st == SplitScan(content)
    IN  IF Strip(st.current_statement) # <<>>
        THEN AppendStatement(st.statements, st.current_statement)
        ELSE st.statements

SplitCuts(content) == SplitScan(content).cuts

--------------------------------------------------------------------------
(* The DDL texts the splitter is applied to.                               *)

MaxLines == 3
DoBodyLen == 2

SplitLineSet ==
    { Chars("a;"), Chars("b"), Chars(""), Chars("-- c"), Chars("a; -- c"),
      Chars("f $$"), Chars("$$;"), Chars("f $t$"), Chars("$t$;"),
      Chars("DO $$ a; $$;") }

AllSeqs(S, n) == UNION {[1..k -> S] : k \in 1..n}

GenericContents == {Join(ls, "\n") : ls \in AllSeqs(SplitLineSet, MaxLines)}

\* DO $$ BEGIN s; ...; END $$; as words, DoBodyLen inner statements
DoBlockWords ==
    <<Chars("DO"), Chars("$$"), Chars("BEGIN")>>
        \o [i \in 1..DoBodyLen |-> Chars("s;")]
        \o <<Chars("END"), Chars("$$;")>>

\* the block with a line break after each word whose index is in breaks
RECURSIVE LayOut(_, _, _)
LayOut(words, breaks, k) ==
    IF k > Len(words) THEN <<>>
    ELSE words[k]
         \o (IF k = Len(words) THEN <<>>
             ELSE IF k \in breaks THEN <<"\n">> ELSE <<" ">>)
         \o LayOut(words, breaks, k + 1)

DoBlockContents ==
    {LayOut(DoBlockWords, breaks, 1) : breaks \in SUBSET (1..(Len(DoBlockWords) - 1))}

\* nothing split or executed yet
DdlFresh ==
    /\ statements = <<>>
    /\ cuts = {}
    /\ attempted = <<>>
    /\ skipped = {}
    /\ result = [returned |-> FALSE]
    /\ cleaned = <<None>>

\* the DDL manager is not used
DdlIdle ==
    /\ ddl_content = <<>>
    /\ DdlFresh

\* the resolver is not used
ResolverIdle ==
    /\ environ = <<>>
    /\ environ0 = <<>>
    /\ dockerenv = FALSE
    /\ dns = {}
    /\ env_file = [found |-> FALSE, text |-> <<>>]
    /\ dotenv = FALSE
    /\ environment = None
    /\ reachable = {}
    /\ probes = <<>>
    /\ config = [kind |-> "none"]
    /\ diagnostics = [returned |-> FALSE]

\* the compatibility checker is not used
CheckerIdle ==
    /\ requirements = [defined |-> FALSE]
    /\ actual_schema = [exists |-> FALSE, columns |-> <<>>]
    /\ report = [returned |-> FALSE]

\* the database validator is not used
ValidatorIdle ==
    /\ override_config = <<>>
    /\ platforms_arg = <<None>>
    /\ auto_repair = FALSE
    /\ db_answer = "ok"
    /\ schema_answers = <<>>
    /\ schema_calls = <<>>
    /\ validation = [returned |-> FALSE]

\* no connection pool was built
PoolIdle ==
    /\ live_pool = [open |-> FALSE, idle |-> {}]
    /\ scopes = <<>>
    /\ clock = 0
    /\ acquisition = <<>>

\* execute_with_retry is not used
RetryIdle ==
    /\ retry_config = [retry_attempts |-> 0, retry_delay |-> 0, read_only |-> FALSE]
    /\ plan = <<>>
    /\ attempt = 0
    /\ invocations = <<>>
    /\ sleeps = <<>>
    /\ retried = [kind |-> "none"]
    /\ commits = 0
    /\ all_reports = <<>>

\* the validation stack (checker, validator, pool) is not used
ValidationIdle == CheckerIdle /\ ValidatorIdle /\ PoolIdle /\ RetryIdle

\* no DDL manager was constructed
ManagerFresh ==
    /\ manager = None
    /\ pool = [created |-> FALSE, connects |-> 0, open |-> 0]
    /\ ddl_files = <<>>
    /\ ddl_cache = {}
    /\ results = <<>>
    /\ _db_manager = 0
    /\ db_managers = <<>>
    /\ callers = <<>>

\* the manager's construction and directory are not used
ManagerIdle ==
    /\ sql_directory = [exists |-> FALSE, files |-> {}]
    /\ database_up = FALSE
    /\ ManagerFresh

InitSplit ==
    /\ op = "none"
    /\ ddl_content \in GenericContents \cup DoBlockContents
    /\ DdlFresh
    /\ ResolverIdle
    /\ ManagerIdle
    /\ ValidationIdle

\* a direct call of _split_sql_statements on the text
SplitSql ==
    /\ op = "none"
    /\ op' = "_split_sql_statements"
    /\ statements' = _split_sql_statements(ddl_content)
    /\ cuts' = SplitCuts(ddl_content)
    /\ UNCHANGED <<ddl_content, attempted, skipped, result, cleaned, resVars, mgrVars, valVars>>

NextSplit == SplitSql

SpecSplit == InitSplit /\ [][NextSplit]_vars

--------------------------------------------------------------------------
(* Dollar quoting as PostgreSQL reads it: $tag$ opens a block that the     *)
(* next $tag$ with the same tag closes; the tag is a possibly empty run of *)
(* letters.                                                                *)

IsTagChar(c) == \E k \in 1..Len(LowerCase) : c = LowerCase[k] \/ c = UpperCase[k]

\* the delimiter $tag$ starting at position i (1-based, s[i] = "$"), or <<>>
DelimiterAt(s, i) ==
    LET ends == {j \in (i + 1)..Len(s) :
                    s[j] = "$" /\ \A k \in (i + 1)..(j - 1) : IsTagChar(s[k])}
    IN  IF ends = {} THEN <<>> ELSE SubSeq(s, i, Min(ends))

\* the lines (1-based) that begin and end inside a block which a later
\* delimiter closes; inside_at_start tells whether line n began inside a
\* block, pending holds such lines seen since the block was opened
RECURSIVE InsideClosedBlock(_, _, _, _, _, _)
InsideClosedBlock(s, i, open, n, inside_at_start, pending) ==
    IF i > Len(s) THEN {}
    ELSE IF s[i] = "\n"
         THEN InsideClosedBlock(s, i + 1, open, n + 1, open # <<>>,
                  IF open = <<>> THEN {}
                  ELSE IF inside_at_start THEN pending \cup {n} ELSE pending)
    ELSE IF open = <<>>
         THEN IF s[i] = "$" /\ DelimiterAt(s, i) # <<>>
              THEN InsideClosedBlock(s, i + Len(DelimiterAt(s, i)), DelimiterAt(s, i),
                                     n, inside_at_start, {})
              ELSE InsideClosedBlock(s, i + 1, open, n, inside_at_start, {})
    ELSE IF StartsWith(SubSeq(s, i, Len(s)), open)
         THEN pending \cup InsideClosedBlock(s, i + Len(open), <<>>, n, inside_at_start, {})
         ELSE InsideClosedBlock(s, i + 1, open, n, inside_at_start, pending)

LinesInsideDollarBlock(content) == InsideClosedBlock(content, 1, <<>>, 1, FALSE, {})

NonSpace(s) == SelectSeq(s, LAMBDA c : ~IsSpace(c))

\* C3: the splitter never closes a statement after a line whose end lies
\* inside a dollar-quoted block, with the empty tag or with a named tag.
C3_NoBoundaryInsideDollarBlock ==
    op = "_split_sql_statements" =>
        cuts \cap LinesInsideDollarBlock(ddl_content) = {}

\* C4: a DO $$ BEGIN ...; ...; END $$; block that is the whole input, laid
\* out on one line or over several, is returned as exactly one statement
\* holding the whole block.
C4_DoBlockIsOneStatement ==
    (op = "_split_sql_statements" /\ ddl_content \in DoBlockContents) =>
        /\ Len(statements) = 1
        /\ NonSpace(statements[1]) = NonSpace(ddl_content)

\* the block written with one word per line, its inner statements each
\* ending a line, was split into one statement closed at the last line
C4_Witness ==
    /\ op = "_split_sql_statements"
    /\ ddl_content \in DoBlockContents
    /\ Len(Split(ddl_content, "\n")) = Len(DoBlockWords)
    /\ cuts = {Len(DoBlockWords)}
    /\ Len(statements) = 1

--------------------------------------------------------------------------
(* DDLManager.execute_ddl                                                  *)

MaxStmtLines == 2

ExecLineSet ==
    { Chars("a;"), Chars("CREATE TABLE IF NOT EXISTS t (x int);"), Chars("b") }

ExecContents == {Join(ls, "\n") : ls \in AllSeqs(ExecLineSet, MaxStmtLines)}

\* the texts of the errors a statement can fail with
ErrorMessages ==
    { Chars("relation \"t\" does not exist"),
      Chars("relation \"t\" already exists"),
      Chars("duplicate key value violates unique constraint \"k\""),
      Chars("VACUUM cannot run inside a transaction block"),
      Chars("syntax error at or near \"a\""),
      Chars("current transaction is aborted, commands ignored"),
      Chars("permission denied for schema public") }

\* what cursor.execute does with one statement
Outcomes ==
    {[ok |-> TRUE, error |-> <<>>]} \cup {[ok |-> FALSE, error |-> e] : e \in ErrorMessages}

\* the branch of the if/elif chain that a failed statement takes
ErrorCategory(statement, stmt_error) ==
    LET error_str == Lower(stmt_error)
    IN  IF Contains(error_str, Chars("does not exist")) /\ Contains(error_str, Chars("relation"))
        THEN "relation_dependency"
        ELSE IF Contains(error_str, Chars("already exists")) THEN "already_exists"
        ELSE IF Contains(Lower(statement), Chars("if not exists")) THEN "idempotent"
        ELSE IF Contains(error_str, Chars("duplicate")) THEN "duplicate"
        ELSE IF Contains(error_str, Chars("cannot run inside a transaction"))
                \/ Contains(Lower(error_str), Chars("vacuum")) THEN "vacuum"
        ELSE IF Contains(error_str, Chars("syntax error"))
                \/ Contains(error_str, Chars("unterminated")) THEN "syntax"
        ELSE IF Contains(error_str, Chars("current transaction"))
                /\ Contains(error_str, Chars("aborted")) THEN "transaction_aborted"
        ELSE "error"

\* a branch that would leave the loop: every branch case of the handler
\* ends in continue
StopsBatchOnUnclassified(category) == category = "error"

StopsBatch(category) == FALSE

\* the errors list after a statement failed: the message is appended before
\* the error is classified, whatever its category
ErrorsAfterFailure(errors, n, statement, stmt_error) ==
    Append(errors, [statement |-> n, error |-> stmt_error])

\* the for loop over the statements; outcome[n] is what cursor.execute does
\* with statement n. A DDL statement reports no row count, so rows_affected
\* stays 0.
RECURSIVE RunStatements(_, _, _, _)
RunStatements(stmts, outcome, n, run) ==
    IF n > Len(stmts) THEN run
    ELSE IF Strip(stmts[n]) = <<>> THEN RunStatements(stmts, outcome, n + 1, run)
    ELSE LET tried == [run EXCEPT !.attempted = Append(@, stmts[n])]
         IN  IF outcome[n].ok THEN RunStatements(stmts, outcome, n + 1, tried)
             ELSE LET category == ErrorCategory(stmts[n], outcome[n].error)
                      failed == [tried EXCEPT
                                    !.errors = ErrorsAfterFailure(@, n, stmts[n], outcome[n].error),
                                    !.skipped = IF category # "error" THEN @ \cup {n} ELSE @]
                  IN  IF StopsBatch(category)
                      THEN [failed EXCEPT !.raised = TRUE]
                      ELSE RunStatements(stmts, outcome, n + 1, failed)

InitDdl ==
    /\ op = "none"
    /\ ddl_content \in ExecContents
    /\ DdlFresh
    /\ ResolverIdle
    /\ ManagerIdle
    /\ ValidationIdle

\* the exceptions _get_connection raises: the server refuses, or the
\* connection parameters are None
ConnectionFailures ==
    { [class |-> "OperationalError", text |-> Chars("connection refused")],
      [class |-> "AttributeError",
       text |-> Chars("'NoneType' object has no attribute 'copy'")] }

\* the exceptions raised after the statement loop, by cursor.close(),
\* conn.set_isolation_level(old_isolation) or conn.close()
CloseFailures ==
    { [class |-> "InterfaceError", text |-> Chars("connection already closed")],
      [class |-> "OperationalError",
       text |-> Chars("server closed the connection unexpectedly")] }

\* a handler "except psycopg2.Error as e"
CaughtDatabaseErrorsOnly(class) == class \in {"OperationalError", "InterfaceError"}

\* the outer handler "except Exception as e": every exception class modelled
\* is a subclass of Exception
Caught(class) == TRUE

\* the outer handler of execute_ddl on exception e, with the errors so far
OuterHandler(e, errors) ==
    IF Caught(e.class)
    THEN [returned |-> TRUE, success |-> FALSE, exception |-> TRUE,
          errors |-> Append(errors, [statement |-> 0, error |-> e.text]),
          statements_executed |-> 0, successful_statements |-> 0]
    ELSE [returned |-> FALSE, raised |-> e.class, exception |-> TRUE,
          errors |-> errors]

\* execute_ddl when _get_connection raises: the outer handler returns a
\* failure result
ExecuteDdlNoConnection ==
    /\ op = "none"
    /\ op' = "execute_ddl"
    /\ \E e \in ConnectionFailures : result' = OuterHandler(e, <<>>)
    /\ UNCHANGED <<ddl_content, statements, cuts, attempted, skipped, cleaned, resVars, mgrVars,
                   valVars>>

\* execute_ddl with a connection: split, run every statement, return
ExecuteDdl ==
    /\ op = "none"
    /\ op' = "execute_ddl"
    /\ LET stmts == _split_sql_statements(ddl_content)
       IN  \E outcome \in [1..Len(stmts) -> Outcomes] :
            LET run == RunStatements(stmts, outcome, 1,
                           [attempted |-> <<>>, errors |-> <<>>, skipped |-> {},
                            raised |-> FALSE])
            IN  /\ statements' = stmts
                /\ cuts' = SplitCuts(ddl_content)
                /\ attempted' = run.attempted
                /\ skipped' = run.skipped
                /\ result' =
                     IF run.raised
                     THEN [returned |-> TRUE, success |-> FALSE, exception |-> TRUE,
                           errors |-> Append(run.errors,
                                             [statement |-> 0, error |-> Chars("DDL execution failed")]),
                           statements_executed |-> 0, successful_statements |-> 0]
                     ELSE [returned |-> TRUE, success |-> Len(run.errors) = 0,
                           exception |-> FALSE, errors |-> run.errors,
                           statements_executed |-> Len(stmts),
                           successful_statements |-> Len(stmts) - Len(run.errors)]
    /\ UNCHANGED <<ddl_content, cleaned, resVars, mgrVars, valVars>>

\* execute_ddl with a connection that is lost by the end of the loop: every
\* statement was handed to the cursor, closing raises, the outer handler
\* returns a failure result that keeps the statement errors
ExecuteDdlCloseFails ==
    /\ op = "none"
    /\ op' = "execute_ddl"
    /\ LET stmts == _split_sql_statements(ddl_content)
       IN  \E outcome \in [1..Len(stmts) -> Outcomes], e \in CloseFailures :
            LET run == RunStatements(stmts, outcome, 1,
                           [attempted |-> <<>>, errors |-> <<>>, skipped |-> {},
                            raised |-> FALSE])
            IN  /\ statements' = stmts
                /\ cuts' = SplitCuts(ddl_content)
                /\ attempted' = run.attempted
                /\ skipped' = run.skipped
                /\ result' = OuterHandler(e, run.errors)
    /\ UNCHANGED <<ddl_content, cleaned, resVars, mgrVars, valVars>>

NextDdl == ExecuteDdl \/ ExecuteDdlNoConnection \/ ExecuteDdlCloseFails

SpecDdl == InitDdl /\ [][NextDdl]_vars

\* the statements that failed, by their 1-based index
FailedStatements == {result.errors[k].statement : k \in 1..Len(result.errors)}

\* C1: a batch that ran to the end returns success = TRUE exactly when no
\* statement failed with an unclassified error: failures classified as
\* non-fatal (such as "already exists") do not count.
C1_BenignFailuresKeepSuccess ==
    (op = "execute_ddl" /\ ~result.exception) =>
        (result.success <=> FailedStatements \subseteq skipped)

\* C2: with a connection, every statement the splitter produced is handed
\* to the cursor exactly once and in source order, whatever failed before.
C2_EveryStatementAttemptedInOrder ==
    op = "execute_ddl" =>
        IF \E e \in ConnectionFailures :
                result.errors = <<[statement |-> 0, error |-> e.text]>>
        THEN attempted = <<>>
        ELSE attempted = _split_sql_statements(ddl_content)

\* the first statement failed with an unclassified error, the second with
\* a benign one, and both were attempted
C2_Witness ==
    /\ op = "execute_ddl"
    /\ Len(statements) = 2
    /\ Len(result.errors) = 2
    /\ 1 \notin skipped
    /\ 2 \in skipped
    /\ attempted = statements

\* C12: execute_ddl never lets an exception reach its caller: it returns a
\* result on every path, and when the run could not complete (no connection,
\* or an error outside the statement handler) the result has success = FALSE
\* and holds the error.
C12_ExecuteDdlAlwaysReturns ==
    op = "execute_ddl" =>
        /\ result.returned
        /\ result.exception =>
                /\ ~result.success
                /\ result.errors # <<>>
                /\ result.errors[Len(result.errors)].statement = 0

\* the connection parameters were None: the AttributeError ended in a
\* returned failure result
C12_Witness ==
    /\ op = "execute_ddl"
    /\ result.returned
    /\ result.exception
    /\ result.errors[1].error = Chars("'NoneType' object has no attribute 'copy'")

--------------------------------------------------------------------------
(* resolver.py: ConnectionConfig and ConnectionConfigResolver              *)

Digits == Chars("0123456789")

IsDigit(c) == \E k \in 1..10 : Digits[k] = c

DigitValue(c) == (CHOOSE k \in 1..10 : Digits[k] = c) - 1

\* whether int(s) returns: s, stripped, is a run of decimal digits (signs
\* and digit separators do not occur in the values modelled)
IsInt(s) == Strip(s) # <<>> /\ \A k \in 1..Len(Strip(s)) : IsDigit(Strip(s)[k])

RECURSIVE DecimalValue(_)
DecimalValue(s) ==
    IF s = <<>> THEN 0
    ELSE 10 * DecimalValue(SubSeq(s, 1, Len(s) - 1)) + DigitValue(s[Len(s)])

\* int(s)
Int_(s) == DecimalValue(Strip(s))

\* str(n) for n >= 0
RECURSIVE Str(_)
Str(n) == IF n < 10 THEN <<Digits[n + 1]>> ELSE Str(n \div 10) \o <<Digits[(n % 10) + 1]>>

\* os.environ.get(name): the value, or <<None>>
Get(env, name) == IF name \in DOMAIN env THEN env[name] ELSE <<None>>

\* the truth value of a string or None
Truthy(v) == v # <<None>> /\ v # <<>>

\* a or b
Or(a, b) == IF Truthy(a) THEN a ELSE b

DOCKER_COMPOSE == "docker_compose"
DOCKER_HOST == "docker_host"
LOCAL_HOST == "local_host"
CI_CD == "ci_cd"
UNKNOWN == "unknown"

\* a __post_init__ that leaves the connection string as it is
post_init_keeps_string(c) == c

\* ConnectionConfig.__post_init__: the connection string of the fields as they
\* are now
__post_init__(c) ==
    [c EXCEPT !.connection_string =
        Chars("postgresql://") \o c.user \o Chars(":") \o c.password \o Chars("@")
            \o c.host \o Chars(":") \o Str(c.port) \o Chars("/") \o c.database]

\* ConnectionConfig(...): the dataclass takes the fields, connection_string is
\* "" by default, and __post_init__ runs
ConnectionConfig(host, port, database, user, password, env_type) ==
    __post_init__([kind |-> "config", host |-> host, port |-> port, database |-> database,
                   user |-> user, password |-> password, environment |-> env_type,
                   connection_string |-> <<>>])

compose_hosts == <<Chars("postgres"), Chars("db"), Chars("database"), Chars("postgresql")>>
docker_hosts == <<Chars("host.docker.internal"), Chars("host-gateway"),
                  Chars("gateway.docker.internal")>>
local_hosts == <<Chars("localhost"), Chars("127.0.0.1")>>

_check_docker_compose_services(env, resolvable) ==
    IF Get(env, Chars("DISABLE_DOCKER_DETECT")) = Chars("1") THEN FALSE
    ELSE \E k \in 1..Len(compose_hosts) : compose_hosts[k] \in resolvable

\* a detection that tests the container marker before the CI indicators
_detect_environment_marker_first(env, marker, resolvable) ==
    IF Get(env, Chars("DISABLE_DOCKER_DETECT")) = Chars("1") THEN LOCAL_HOST
    ELSE IF marker THEN DOCKER_HOST
    ELSE IF \E v \in {Chars("CI"), Chars("GITHUB_ACTIONS"), Chars("JENKINS_URL")} :
                v \in DOMAIN env
         THEN CI_CD
    ELSE IF Truthy(Get(env, Chars("COMPOSE_PROJECT_NAME")))
            \/ _check_docker_compose_services(env, resolvable)
         THEN DOCKER_COMPOSE
    ELSE LOCAL_HOST

_detect_environment(env, marker, resolvable) ==
    IF Get(env, Chars("DISABLE_DOCKER_DETECT")) = Chars("1") THEN LOCAL_HOST
    ELSE IF \E v \in {Chars("CI"), Chars("GITHUB_ACTIONS"), Chars("JENKINS_URL")} :
                v \in DOMAIN env
         THEN CI_CD
    ELSE IF marker THEN DOCKER_HOST
    ELSE IF Truthy(Get(env, Chars("COMPOSE_PROJECT_NAME")))
            \/ _check_docker_compose_services(env, resolvable)
         THEN DOCKER_COMPOSE
    ELSE LOCAL_HOST

\* str.strip(c) for one character c
RECURSIVE StripChar(_, _)
StripChar(s, c) ==
    IF s = <<>> THEN s
    ELSE IF Head(s) = c THEN StripChar(Tail(s), c)
    ELSE IF s[Len(s)] = c THEN StripChar(SubSeq(s, 1, Len(s) - 1), c)
    ELSE s

\* the key of a KEY=VALUE line
LineKey(line) == Strip(Slice(line, 0, Find(line, <<"=">>, 0)))

\* the value of a KEY=VALUE line, surrounding quotes removed
LineValue(line) ==
    StripChar(StripChar(Strip(Slice(line, Find(line, <<"=">>, 0) + 1, Len(line))), "\""), "'")

\* an assignment that replaces a value already set
SetAlways(env, key, value) == (key :> value) @@ [k \in DOMAIN env \ {key} |-> env[k]]

\* only set if not already in the environment
SetIfAbsent(env, key, value) ==
    IF key \notin DOMAIN env THEN (key :> value) @@ env ELSE env

\* the for loop of _parse_env_file. Setting a variable with an empty name
\* raises OSError, which the handler around the loop logs: the lines after
\* it are not read.
RECURSIVE ParseEnvLines(_, _)
ParseEnvLines(env, lines) ==
    IF lines = <<>> THEN env
    ELSE LET line == Strip(Head(lines))
         IN  IF line = <<>> \/ StartsWith(line, <<"#">>)
             THEN ParseEnvLines(env, Tail(lines))
             ELSE IF Contains(line, Chars("${")) \/ Contains(line, Chars("$("))
             THEN ParseEnvLines(env, Tail(lines))
             ELSE IF Contains(line, <<"=">>)
             THEN IF LineKey(line) \notin DOMAIN env /\ LineKey(line) = <<>>
                  THEN env
                  ELSE ParseEnvLines(SetIfAbsent(env, LineKey(line), LineValue(line)),
                                     Tail(lines))
             ELSE ParseEnvLines(env, Tail(lines))

_parse_env_file(env, text) == ParseEnvLines(env, Split(text, "\n"))

\* load_dotenv(env_path) of python-dotenv, override left False: each
\* KEY=VALUE binding of the file is set unless the name is already set; a
\* reference to an unset variable expands to the empty string, and a line
\* without a name is passed over.
RECURSIVE LoadDotenvLines(_, _)
LoadDotenvLines(env, lines) ==
    IF lines = <<>> THEN env
    ELSE LET line == Strip(Head(lines))
         IN  IF line = <<>> \/ StartsWith(line, <<"#">>) \/ ~Contains(line, <<"=">>)
                \/ LineKey(line) = <<>>
             THEN LoadDotenvLines(env, Tail(lines))
             ELSE LoadDotenvLines(
                      SetIfAbsent(env, LineKey(line),
                                  IF Contains(LineValue(line), Chars("${"))
                                  THEN <<>> ELSE LineValue(line)),
                      Tail(lines))

load_dotenv(env, text) == LoadDotenvLines(env, Split(text, "\n"))

\* os.environ after _load_env_file: the first existing file is loaded with
\* python-dotenv when it can be imported, and parsed by hand otherwise
_load_env_file(env, file, has_dotenv) ==
    IF ~file.found THEN env
    ELSE IF has_dotenv THEN load_dotenv(env, file.text)
    ELSE _parse_env_file(env, file.text)

\* a reading of the explicit variables that knows the DB_* names only
_get_env_config_db_names_only(env, env_type) ==
    LET host == Get(env, Chars("DB_HOST"))
        port == Get(env, Chars("DB_PORT"))
        database == Get(env, Chars("DB_NAME"))
        user == Get(env, Chars("DB_USER"))
        password == Get(env, Chars("DB_PASSWORD"))
    IN  IF Truthy(host) /\ Truthy(port) /\ Truthy(database) /\ Truthy(user) /\ Truthy(password)
        THEN IF IsInt(port)
             THEN ConnectionConfig(host, Int_(port), database, user, password, env_type)
             ELSE [kind |-> "ValueError"]
        ELSE [kind |-> "None"]

\* the config of the explicit variables, [kind |-> "None"] when a field has
\* no non-empty value, [kind |-> "ValueError"] when int(port) raises
_get_env_config(env, env_type) ==
    LET host == Or(Get(env, Chars("DB_HOST")), Get(env, Chars("POSTGRES_HOST")))
        port == Or(Get(env, Chars("DB_PORT")), Get(env, Chars("POSTGRES_PORT")))
        database == Or(Get(env, Chars("DB_NAME")), Get(env, Chars("POSTGRES_DB")))
        user == Or(Get(env, Chars("DB_USER")), Get(env, Chars("POSTGRES_USER")))
        password == Or(Get(env, Chars("DB_PASSWORD")), Get(env, Chars("POSTGRES_PASSWORD")))
    IN  IF Truthy(host) /\ Truthy(port) /\ Truthy(database) /\ Truthy(user) /\ Truthy(password)
        THEN IF IsInt(port)
             THEN ConnectionConfig(host, Int_(port), database, user, password, env_type)
             ELSE [kind |-> "ValueError"]
        ELSE [kind |-> "None"]

DefaultConfig(host, env_type) ==
    ConnectionConfig(host, 5432, Chars("platform"), Chars("postgres"), Chars("postgres"),
                     env_type)

_get_environment_defaults(env_type) ==
    IF env_type = DOCKER_COMPOSE
    THEN [k \in 1..Len(compose_hosts) |-> DefaultConfig(compose_hosts[k], env_type)]
    ELSE IF env_type = DOCKER_HOST
    THEN [k \in 1..Len(docker_hosts) |-> DefaultConfig(docker_hosts[k], env_type)]
    ELSE IF env_type = LOCAL_HOST
    THEN [k \in 1..Len(local_hosts) |-> DefaultConfig(local_hosts[k], env_type)]
    ELSE IF env_type = CI_CD
    THEN <<DefaultConfig(Chars("localhost"), env_type)>>
    ELSE <<>>

_get_fallback_config == DefaultConfig(Chars("localhost"), UNKNOWN)

\* socket.create_connection succeeds for the endpoints in up
_test_connection_host(host, port, up) == <<host, port>> \in up

\* a loop that tests every candidate before it picks the first reachable one
ProbeEveryCandidate(configs, up, tried) ==
    LET hit == {k \in 1..Len(configs) : _test_connection_host(configs[k].host, configs[k].port, up)}
    IN  [probes |-> tried \o [k \in 1..Len(configs) |-> <<configs[k].host, configs[k].port>>],
         config |-> IF hit = {} THEN _get_fallback_config ELSE configs[Min(hit)]]

\* the for loop over env_defaults: the first config whose host answers is
\* returned, the fallback config when none does
RECURSIVE ProbeInOrder(_, _, _)
ProbeInOrder(configs, up, tried) ==
    IF configs = <<>> THEN [probes |-> tried, config |-> _get_fallback_config]
    ELSE LET c == Head(configs)
             now == Append(tried, <<c.host, c.port>>)
         IN  IF _test_connection_host(c.host, c.port, up)
             THEN [probes |-> now, config |-> c]
             ELSE ProbeInOrder(Tail(configs), up, now)

\* get_database_config: what is returned or raised, and the probes made
get_database_config(env, env_type, up) ==
    LET env_config == _get_env_config(env, env_type)
    IN  IF env_config.kind # "None"
        THEN [probes |-> <<>>, config |-> env_config]
        ELSE ProbeInOrder(_get_environment_defaults(env_type), up, <<>>)

\* the endpoints a resolver of this environment may probe
Endpoints(env_type) ==
    LET cs == _get_environment_defaults(env_type)
    IN  {<<cs[k].host, cs[k].port>> : k \in 1..Len(cs)}

\* a constructor that loads the .env file first and detects the environment
\* from what the file added
NewResolverLoadsFirst ==
    /\ op = "none"
    /\ op' = "ConnectionConfigResolver"
    /\ environ0' = environ
    /\ environment' = _detect_environment(_load_env_file(environ, env_file, dotenv),
                                          dockerenv, dns)
    /\ environ' = _load_env_file(environ, env_file, dotenv)
    /\ UNCHANGED <<ddlVars, mgrVars, valVars, dockerenv, dns, env_file, dotenv, reachable, probes, config, diagnostics>>

\* ConnectionConfigResolver(): detect the environment, then load the .env file
NewResolver ==
    /\ op = "none"
    /\ op' = "ConnectionConfigResolver"
    /\ environ0' = environ
    /\ environment' = _detect_environment(environ, dockerenv, dns)
    /\ environ' = _load_env_file(environ, env_file, dotenv)
    /\ UNCHANGED <<ddlVars, mgrVars, valVars, dockerenv, dns, env_file, dotenv, reachable, probes, config, diagnostics>>

\* resolver.get_database_config(), with the endpoints in up answering
GetDatabaseConfig ==
    /\ op = "ConnectionConfigResolver"
    /\ op' = "get_database_config"
    /\ \E up \in SUBSET Endpoints(environment) :
        LET got == get_database_config(environ, environment, up)
        IN  /\ reachable' = up
            /\ probes' = got.probes
            /\ config' = got.config
    /\ UNCHANGED <<ddlVars, mgrVars, valVars, environ, environ0, dockerenv, dns, env_file, dotenv, environment, diagnostics>>

NextResolver == NewResolver \/ GetDatabaseConfig

\* the environments made of one binding chosen for each name of choices,
\* a sequence of <<name, values>>; the value <<None>> leaves the name unset
RECURSIVE Environs(_)
Environs(choices) ==
    IF choices = <<>> THEN {<<>>}
    ELSE {IF v = <<None>> THEN e ELSE (Chars(Head(choices)[1]) :> v) @@ e :
            e \in Environs(Tail(choices)), v \in Head(choices)[2]}

NoFile == [found |-> FALSE, text |-> <<>>]

File(text) == [found |-> TRUE, text |-> text]

\* the explicit connection variables: unset, empty or set, under both names
ConnectionChoices ==
    << <<"DB_HOST", {<<None>>, <<>>, Chars("h1")}>>,
       <<"POSTGRES_HOST", {<<None>>, Chars("h2")}>>,
       <<"DB_PORT", {<<None>>, Chars("5432"), Chars("x")}>>,
       <<"POSTGRES_PORT", {<<None>>, Chars("6543")}>>,
       <<"DB_NAME", {<<None>>, Chars("d1")}>>,
       <<"POSTGRES_DB", {<<None>>, Chars("d2")}>>,
       <<"DB_USER", {<<None>>, Chars("u1")}>>,
       <<"POSTGRES_USER", {<<None>>, Chars("u2")}>>,
       <<"DB_PASSWORD", {<<None>>, <<>>, Chars("p1")}>>,
       <<"POSTGRES_PASSWORD", {<<None>>, Chars("p2")}>>,
       <<"CI", {<<None>>, Chars("true")}>>,
       <<"COMPOSE_PROJECT_NAME", {<<None>>, Chars("proj")}>> >>

\* a process with some explicit connection variables and no .env file
InitResolve ==
    /\ op = "none"
    /\ DdlIdle
    /\ ManagerIdle
    /\ ValidationIdle
    /\ environ \in Environs(ConnectionChoices)
    /\ environ0 = <<>>
    /\ dockerenv \in BOOLEAN
    /\ dns = {}
    /\ env_file = NoFile
    /\ dotenv = FALSE
    /\ environment = None
    /\ reachable = {}
    /\ probes = <<>>
    /\ config = [kind |-> "none"]
    /\ diagnostics = [returned |-> FALSE]

SpecResolve == InitResolve /\ [][NextResolver]_vars

\* the indicators the detection reads
IndicatorChoices ==
    << <<"DISABLE_DOCKER_DETECT", {<<None>>, Chars("1"), Chars("0")}>>,
       <<"CI", {<<None>>, Chars("true")}>>,
       <<"GITHUB_ACTIONS", {<<None>>, <<>>}>>,
       <<"JENKINS_URL", {<<None>>, Chars("http://j")}>>,
       <<"COMPOSE_PROJECT_NAME", {<<None>>, <<>>, Chars("proj")}>> >>

IndicatorFiles ==
    { NoFile,
      File(Chars("CI=true\nDISABLE_DOCKER_DETECT=1")),
      File(Chars("COMPOSE_PROJECT_NAME=proj")) }

\* a process with some of the indicators, with or without a .env file
InitClassify ==
    /\ op = "none"
    /\ DdlIdle
    /\ ManagerIdle
    /\ ValidationIdle
    /\ environ \in Environs(IndicatorChoices)
    /\ environ0 = <<>>
    /\ dockerenv \in BOOLEAN
    /\ dns \in {{}, {Chars("db")}, {Chars("postgresql")}}
    /\ env_file \in IndicatorFiles
    /\ dotenv \in BOOLEAN
    /\ environment = None
    /\ reachable = {}
    /\ probes = <<>>
    /\ config = [kind |-> "none"]
    /\ diagnostics = [returned |-> FALSE]

SpecClassify == InitClassify /\ [][NextResolver]_vars

MaxEnvLines == 2

EnvLineSet ==
    { Chars("DB_HOST=filehost"), Chars("DB_PASSWORD=\"secret\""), Chars(" DB_USER = 'fu' "),
      Chars("CI=true"), Chars("# DB_HOST=commented"), Chars("DB_HOST=${H}"),
      Chars("=v"), Chars("DB_NAME=") }

EnvFiles == {File(Join(ls, "\n")) : ls \in AllSeqs(EnvLineSet, MaxEnvLines)}

FileChoices ==
    << <<"DB_HOST", {<<None>>, <<>>, Chars("h1")}>>,
       <<"DB_PORT", {Chars("5432")}>>,
       <<"DB_NAME", {Chars("d1")}>>,
       <<"DB_USER", {<<None>>, Chars("u1")}>>,
       <<"DB_PASSWORD", {<<None>>, Chars("p1")}>>,
       <<"CI", {<<None>>, Chars("1")}>> >>

\* a process with a .env file on the search path
InitEnvFile ==
    /\ op = "none"
    /\ DdlIdle
    /\ ManagerIdle
    /\ ValidationIdle
    /\ environ \in Environs(FileChoices)
    /\ environ0 = <<>>
    /\ dockerenv = FALSE
    /\ dns = {}
    /\ env_file \in EnvFiles
    /\ dotenv \in BOOLEAN
    /\ environment = None
    /\ reachable = {}
    /\ probes = <<>>
    /\ config = [kind |-> "none"]
    /\ diagnostics = [returned |-> FALSE]

SpecEnvFile == InitEnvFile /\ [][NextResolver]_vars

--------------------------------------------------------------------------
(* Claims about the resolver                                               *)

\* the two names of each connection field, the DB_* name first
Aliases ==
    [host |-> <<Chars("DB_HOST"), Chars("POSTGRES_HOST")>>,
     port |-> <<Chars("DB_PORT"), Chars("POSTGRES_PORT")>>,
     database |-> <<Chars("DB_NAME"), Chars("POSTGRES_DB")>>,
     user |-> <<Chars("DB_USER"), Chars("POSTGRES_USER")>>,
     password |-> <<Chars("DB_PASSWORD"), Chars("POSTGRES_PASSWORD")>>]

Fields == DOMAIN Aliases

\* the values the field has in env, under either name
PresentValues(env, f) == {env[Aliases[f][k]] : k \in {j \in 1..2 : Aliases[f][j] \in DOMAIN env}}

\* the non-empty value of the field: the DB_* one when there is one
NonEmptyValues(env, f) == PresentValues(env, f) \ {<<>>}

Effective(env, f) ==
    IF Aliases[f][1] \in DOMAIN env /\ env[Aliases[f][1]] # <<>>
    THEN env[Aliases[f][1]] ELSE env[Aliases[f][2]]

\* C5 as stated: with all five fields present under either name, the call
\* returns a config holding those values and probes nothing.
C5_PresentTupleReturnedWithoutProbe ==
    (op = "get_database_config" /\ \A f \in Fields : PresentValues(environ, f) # {}) =>
        /\ probes = <<>>
        /\ config.kind = "config"
        /\ config.host \in PresentValues(environ, "host")
        /\ \E v \in PresentValues(environ, "port") : IsInt(v) /\ config.port = Int_(v)
        /\ config.database \in PresentValues(environ, "database")
        /\ config.user \in PresentValues(environ, "user")
        /\ config.password \in PresentValues(environ, "password")

\* C5 amended: with a non-empty value for each of the five fields under
\* either name (the DB_* value when it is non-empty, the POSTGRES_* value
\* otherwise) and a port value that is a decimal integer, the call returns a
\* config holding exactly those values and probes nothing.
C5_CompleteTupleReturnedWithoutProbe ==
    (/\ op = "get_database_config"
     /\ \A f \in Fields : NonEmptyValues(environ, f) # {}
     /\ IsInt(Effective(environ, "port"))) =>
        /\ probes = <<>>
        /\ config = ConnectionConfig(Effective(environ, "host"),
                                     Int_(Effective(environ, "port")),
                                     Effective(environ, "database"),
                                     Effective(environ, "user"),
                                     Effective(environ, "password"),
                                     environment)

\* a tuple completed by POSTGRES_* names was returned although an endpoint
\* of the environment was reachable
C5_Witness ==
    /\ op = "get_database_config"
    /\ Chars("DB_HOST") \notin DOMAIN environ
    /\ Get(environ, Chars("DB_PASSWORD")) = <<>>
    /\ config.kind = "config"
    /\ config.host = Chars("h2")
    /\ config.password = Chars("p2")
    /\ reachable # {}
    /\ probes = <<>>

ComposeEndpoints == [k \in 1..Len(compose_hosts) |-> <<compose_hosts[k], 5432>>]

\* C6: in a DockerCompose environment without a complete explicit tuple the
\* call probes postgres, db, database, postgresql in that order, stops at
\* the first that answers and returns it; when none answers it returns
\* localhost:5432/platform/postgres/postgres tagged Unknown.
C6_ComposeProbesInOrder ==
    (/\ op = "get_database_config"
     /\ environment = DOCKER_COMPOSE
     /\ \E f \in Fields : NonEmptyValues(environ, f) = {}) =>
        LET up == {k \in 1..Len(ComposeEndpoints) : ComposeEndpoints[k] \in reachable}
        IN  IF up = {}
            THEN /\ probes = ComposeEndpoints
                 /\ config = ConnectionConfig(Chars("localhost"), 5432, Chars("platform"),
                                 Chars("postgres"), Chars("postgres"), UNKNOWN)
            ELSE /\ probes = SubSeq(ComposeEndpoints, 1, Min(up))
                 /\ config = ConnectionConfig(compose_hosts[Min(up)], 5432, Chars("platform"),
                                 Chars("postgres"), Chars("postgres"), DOCKER_COMPOSE)

\* database was returned after postgres and db failed, postgresql, also
\* reachable, was not probed
C6_Witness ==
    /\ op = "get_database_config"
    /\ environment = DOCKER_COMPOSE
    /\ reachable = {<<Chars("database"), 5432>>, <<Chars("postgresql"), 5432>>}
    /\ Len(probes) = 3
    /\ config.kind = "config"
    /\ config.host = Chars("database")

DisableFlag(env) == Get(env, Chars("DISABLE_DOCKER_DETECT")) = Chars("1")

CiIndicator(env) ==
    DOMAIN env \cap {Chars("CI"), Chars("GITHUB_ACTIONS"), Chars("JENKINS_URL")} # {}

ComposeMarker(env) ==
    /\ Chars("COMPOSE_PROJECT_NAME") \in DOMAIN env
    /\ env[Chars("COMPOSE_PROJECT_NAME")] # <<>>

ComposeNameResolves == \E k \in 1..Len(compose_hosts) : compose_hosts[k] \in dns

\* C7: the environment of a resolver is the first match of: disable flag ->
\* LocalHost; a CI indicator -> CiCd; the container marker file ->
\* DockerHost; a compose project name or a resolvable compose host name ->
\* DockerCompose; otherwise LocalHost.
C7_FirstMatchPrecedence ==
    op # "none" =>
        environment =
            CASE DisableFlag(environ0) -> LOCAL_HOST
              [] ~DisableFlag(environ0) /\ CiIndicator(environ0) -> CI_CD
              [] ~DisableFlag(environ0) /\ ~CiIndicator(environ0) /\ dockerenv -> DOCKER_HOST
              [] ~DisableFlag(environ0) /\ ~CiIndicator(environ0) /\ ~dockerenv
                    /\ (ComposeMarker(environ0) \/ ComposeNameResolves) -> DOCKER_COMPOSE
              [] OTHER -> LOCAL_HOST

\* the disable flag won over a CI indicator, the marker file and a compose
\* project name
C7_Witness ==
    /\ op = "ConnectionConfigResolver"
    /\ DisableFlag(environ0)
    /\ CiIndicator(environ0)
    /\ dockerenv
    /\ ComposeMarker(environ0)
    /\ ComposeNameResolves
    /\ environment = LOCAL_HOST

\* C8: loading the .env file leaves every variable that was set before the
\* load with the value it had; the file can only add names.
C8_EnvFileNeverOverwrites ==
    op # "none" =>
        \A name \in DOMAIN environ0 :
            name \in DOMAIN environ /\ environ[name] = environ0[name]

\* the file bound DB_HOST, which was set, and a name that was not: the
\* first kept its value and the second was added
C8_Witness ==
    /\ op = "ConnectionConfigResolver"
    /\ Contains(env_file.text, Chars("DB_HOST=filehost"))
    /\ Get(environ0, Chars("DB_HOST")) = Chars("h1")
    /\ Get(environ, Chars("DB_HOST")) = Chars("h1")
    /\ DOMAIN environ # DOMAIN environ0

--------------------------------------------------------------------------
(* schema_manager.py: DDLManager construction, get_ddl_files and           *)
(* create_all_tables; connection_pool_legacy.py: DatabaseManager and       *)
(* ConnectionPool construction                                             *)

\* DatabaseManager._load_config: the pool size read from the environment
\* (the override parameters carry host, port, database, user, password only)
_load_config(env) ==
    LET min_text == IF Chars("DB_POOL_MIN") \in DOMAIN env
                    THEN env[Chars("DB_POOL_MIN")] ELSE Chars("1")
    IN  IF IsInt(min_text)
        THEN [kind |-> "config", min_connections |-> Int_(min_text)]
        ELSE [kind |-> "ValueError"]

\* ConnectionPool(config): psycopg2's ThreadedConnectionPool connects
\* min_connections times when it is created; a failed connect is raised
ConnectionPool(cfg, up) ==
    IF up \/ cfg.min_connections = 0
    THEN [raised |-> FALSE,
          pool |-> [created |-> TRUE, connects |-> cfg.min_connections,
                    open |-> cfg.min_connections]]
    ELSE [raised |-> TRUE, pool |-> [created |-> FALSE, connects |-> 1, open |-> 0]]

\* fnmatch of a file name against the patterns of the code
MatchesDdl(name) ==
    /\ EndsWith(name, Chars(".sql"))
    /\ Contains(Slice(name, 0, Len(name) - 4), Chars("ddl"))

MatchesUnderscoreDdl(name) == EndsWith(name, Chars("_ddl.sql"))

MatchesLayer(name, layer) ==
    /\ Len(name) >= Len(layer) + 5
    /\ StartsWith(name, layer \o <<"_">>)
    /\ EndsWith(name, Chars(".sql"))

\* DDLManager._validate_sql_directory: the exception it raises, or None
_validate_sql_directory(dir) ==
    IF ~dir.exists THEN "FileNotFoundError"
    ELSE IF {f \in dir.files : MatchesDdl(f)} = {} THEN "FileNotFoundError"
    ELSE None

\* DatabaseManager(connection_params): the configuration, then the pool
DatabaseManager(env, up) ==
    LET cfg == _load_config(env)
    IN  IF cfg.kind = "ValueError"
        THEN [raised |-> "ValueError",
              pool |-> [created |-> FALSE, connects |-> 0, open |-> 0]]
        ELSE LET made == ConnectionPool(cfg, up)
             IN  [raised |-> IF made.raised THEN "OperationalError" ELSE None,
                  pool |-> made.pool]

\* DDLManager(connection_params, sql_directory): the database manager is
\* built first, the directory is validated last
DDLManager(env, dir, up) ==
    LET db_manager == DatabaseManager(env, up)
    IN  IF db_manager.raised # None
        THEN [outcome |-> db_manager.raised, pool |-> db_manager.pool]
        ELSE LET invalid == _validate_sql_directory(dir)
             IN  [outcome |-> IF invalid # None THEN invalid ELSE "DDLManager",
                  pool |-> db_manager.pool]

\* Path.stem: the name without its last suffix
Stem(name) ==
    LET dots == {k \in 2..Len(name) : name[k] = "."}
    IN  IF dots = {} THEN name
        ELSE SubSeq(name, 1, (CHOOSE k \in dots : \A d \in dots : d <= k) - 1)

execution_order ==
    (Chars("steam_ddl_api.sql") :> 0) @@ (Chars("steam_ddl_file.sql") :> 1)

platforms == <<"steam", "sony", "epic", "gog", "nintendo", "xbox">>

\* the platform of a file: the first platform name its stem holds
Platform(filename_stem) ==
    LET hits == {k \in 1..Len(platforms) : Contains(filename_stem, Chars(platforms[k]))}
    IN  IF hits = {} THEN Chars("generic")
        ELSE Chars(platforms[CHOOSE k \in hits : \A h \in hits : k <= h])

Layer(filename_stem) ==
    IF Contains(filename_stem, Chars("l1")) THEN Chars("l1") ELSE Chars("l0")

\* the format {order:02d}
Format02d(order) == IF order < 10 THEN <<"0">> \o Str(order) ELSE Str(order)

\* ddl_files[key] = file_path
Put(dict, key, value) ==
    [k \in DOMAIN dict \cup {key} |-> IF k = key THEN value ELSE dict[k]]

\* the files the four glob patterns find
FoundFiles(dir) ==
    {f \in dir.files : \/ MatchesDdl(f)
                       \/ MatchesUnderscoreDdl(f)
                       \/ MatchesLayer(f, Chars("l0"))
                       \/ MatchesLayer(f, Chars("l1"))}

\* all(...) in place of any(...): both split files are required
split_files_both_exist(dir) ==
    \A f \in {Chars("steam_ddl_api.sql"), Chars("steam_ddl_file.sql")} : f \in dir.files

\* split_files_exist: any of the two split files exists in the directory
split_files_exist(dir) ==
    \E f \in {Chars("steam_ddl_api.sql"), Chars("steam_ddl_file.sql")} : f \in dir.files

\* one iteration of get_ddl_files over the found files
AddDdlFile(files, dir, filename) ==
    LET filename_stem == Stem(filename)
        prefix == Platform(filename_stem) \o <<"_">> \o Layer(filename_stem)
    IN  IF /\ filename = Chars("steam_ddl.sql")
           /\ split_files_exist(dir)
        THEN files
        ELSE IF /\ filename = Chars("steam_file_dimensions_ddl.sql")
                /\ Chars("steam_ddl_file.sql") \in dir.files
        THEN files
        ELSE IF filename \in DOMAIN execution_order
        THEN Put(files,
                 prefix \o <<"_">> \o Format02d(execution_order[filename])
                        \o <<"_">> \o filename_stem,
                 filename)
        ELSE IF prefix \in DOMAIN files /\ ~Contains(filename_stem, Chars("optimized"))
        THEN files
        ELSE Put(files, prefix, filename)

\* get_ddl_files, the set of found files iterated in the order given
RECURSIVE AddDdlFiles(_, _, _)
AddDdlFiles(files, dir, order) ==
    IF order = <<>> THEN files
    ELSE AddDdlFiles(AddDdlFile(files, dir, Head(order)), dir, Tail(order))

get_ddl_files(dir, order) == AddDdlFiles(<<>>, dir, order)

\* the orders in which a set can be iterated
Orderings(S) ==
    {o \in [1..Cardinality(S) -> S] : \A i, j \in DOMAIN o : o[i] = o[j] => i = j}

\* the characters of the keys, by ascending code point
CodePoints == Chars(".0123456789_abcdefghijklmnopqrstuvwxyz")

Ord(c) == CHOOSE k \in 1..Len(CodePoints) : CodePoints[k] = c

\* a < b on strings
RECURSIVE StrLess(_, _)
StrLess(a, b) ==
    IF b = <<>> THEN FALSE
    ELSE IF a = <<>> THEN TRUE
    ELSE IF Head(a) = Head(b) THEN StrLess(Tail(a), Tail(b))
    ELSE Ord(Head(a)) < Ord(Head(b))

\* sorted(keys)
RECURSIVE sorted(_)
sorted(keys) ==
    IF keys = {} THEN <<>>
    ELSE LET least == CHOOSE k \in keys : \A other \in keys \ {k} : StrLess(k, other)
         IN  <<least>> \o sorted(keys \ {least})

\* what happens to one file: its tables are created, execute_ddl returns
\* errors, or load_ddl_file raises
FileFates == {"created", "errors", "unreadable"}

\* the result create_all_tables appends for one file
FileResult(platform_layer, file_path, fate) ==
    [table_name |-> platform_layer, file |-> file_path,
     success |-> fate = "created", exception |-> fate = "unreadable"]

\* create_all_tables over the dictionary: one result per file, by sorted key
create_all_tables(files, fate) ==
    LET sorted_ddl_files == sorted(DOMAIN files)
    IN  [i \in 1..Len(sorted_ddl_files) |->
            FileResult(sorted_ddl_files[i], files[sorted_ddl_files[i]],
                       fate[sorted_ddl_files[i]])]

MaxFiles == 2

\* file names a SQL directory may hold
FileNames ==
    { Chars("steam_ddl_api.sql"), Chars("steam_ddl_file.sql"), Chars("steam_ddl.sql"),
      Chars("steam_file_dimensions_ddl.sql"), Chars("steam_ddl_optimized.sql"),
      Chars("l1_steam_ddl.sql"), Chars("epic_ddl.sql"), Chars("xbox_ddl.sql"),
      Chars("l0_generic.sql"), Chars("readme.md") }

Directories ==
    {[exists |-> FALSE, files |-> {}]} \cup
    {[exists |-> TRUE, files |-> F] :
        F \in {G \in SUBSET FileNames : Cardinality(G) <= MaxFiles}}

PoolChoices ==
    << <<"DB_POOL_MIN", {<<None>>, Chars("0"), Chars("2"), Chars("x")}>> >>

\* a process about to construct a DDL manager
InitManager ==
    /\ op = "none"
    /\ DdlIdle
    /\ environ \in Environs(PoolChoices)
    /\ environ0 = <<>>
    /\ dockerenv = FALSE
    /\ dns = {}
    /\ env_file = NoFile
    /\ dotenv = FALSE
    /\ environment = None
    /\ reachable = {}
    /\ probes = <<>>
    /\ config = [kind |-> "none"]
    /\ diagnostics = [returned |-> FALSE]
    /\ sql_directory \in Directories
    /\ database_up \in BOOLEAN
    /\ ManagerFresh
    /\ ValidationIdle

\* DDLManager(connection_params, sql_directory)
NewDDLManager ==
    /\ op = "none"
    /\ op' = "DDLManager"
    /\ LET built == DDLManager(environ, sql_directory, database_up)
       IN  /\ manager' = built.outcome
           /\ pool' = built.pool
    /\ UNCHANGED <<ddlVars, resVars, valVars, sql_directory, database_up, ddl_files,
                   ddl_cache, results, _db_manager, db_managers, callers>>

\* manager.create_all_tables() on a constructed manager
CreateAllTables ==
    /\ op = "DDLManager"
    /\ manager = "DDLManager"
    /\ op' = "create_all_tables"
    /\ \E order \in Orderings(FoundFiles(sql_directory)) :
        LET files == get_ddl_files(sql_directory, order)
        IN  \E fate \in [DOMAIN files -> FileFates] :
             /\ ddl_files' = files
             /\ results' = create_all_tables(files, fate)
             /\ ddl_cache' = {files[k] : k \in {x \in DOMAIN files : fate[x] # "unreadable"}}
    /\ UNCHANGED <<ddlVars, resVars, valVars, sql_directory, database_up, manager, pool,
                   _db_manager, db_managers, callers>>

NextManager == NewDDLManager \/ CreateAllTables

SpecManager == InitManager /\ [][NextManager]_vars

--------------------------------------------------------------------------
(* Claims about the DDL manager's construction and file ordering           *)

\* the directory exists and holds a file the validation accepts
DirectoryHoldsDdl ==
    sql_directory.exists /\ \E f \in sql_directory.files : MatchesDdl(f)

\* C9: constructing a DDLManager on a missing directory, or on one that
\* holds no DDL file, raises the configuration error (FileNotFoundError)
\* and no pool was created and no connection attempted before that.
C9_DirectoryCheckedBeforeNetwork ==
    (op = "DDLManager" /\ ~DirectoryHoldsDdl /\ _load_config(environ).kind = "config") =>
        /\ manager = "FileNotFoundError"
        /\ ~pool.created
        /\ pool.connects = 0

\* whether a source carries an explicit ordering key
HasOrderKey(file) == file \in DOMAIN execution_order

\* C10: create_all_tables executes every DDL source of the dictionary, the
\* sources with an explicit ordering key before all the others, and the
\* whole set by ascending ordering key and then by identifier.
C10_OrderedSourcesFirst ==
    op = "create_all_tables" =>
        /\ {results[i].file : i \in 1..Len(results)} = {ddl_files[k] : k \in DOMAIN ddl_files}
        /\ \A i, j \in 1..Len(results) : i < j =>
            LET a == results[i]
                b == results[j]
            IN  /\ HasOrderKey(b.file) => HasOrderKey(a.file)
                /\ (HasOrderKey(a.file) /\ HasOrderKey(b.file)) =>
                        \/ execution_order[a.file] < execution_order[b.file]
                        \/ /\ execution_order[a.file] = execution_order[b.file]
                           /\ StrLess(a.table_name, b.table_name)
                /\ (~HasOrderKey(a.file) /\ ~HasOrderKey(b.file)) =>
                        StrLess(a.table_name, b.table_name)

\* the files get_ddl_files selected
SelectedFiles == {ddl_files[k] : k \in DOMAIN ddl_files}

\* C11: a superseded source is never selected while its replacement is in
\* the directory: steam_ddl.sql when steam_ddl_api.sql or steam_ddl_file.sql
\* exists, steam_file_dimensions_ddl.sql when steam_ddl_file.sql exists.
C11_SupersededSourcesSkipped ==
    op = "create_all_tables" =>
        /\ (\/ Chars("steam_ddl_api.sql") \in sql_directory.files
            \/ Chars("steam_ddl_file.sql") \in sql_directory.files)
                => Chars("steam_ddl.sql") \notin SelectedFiles
        /\ Chars("steam_ddl_file.sql") \in sql_directory.files
                => Chars("steam_file_dimensions_ddl.sql") \notin SelectedFiles

\* the directory holds the monolithic file and only one of the split files,
\* and the split file alone was selected
C11_Witness ==
    /\ op = "create_all_tables"
    /\ sql_directory.files = {Chars("steam_ddl.sql"), Chars("steam_ddl_api.sql")}
    /\ SelectedFiles = {Chars("steam_ddl_api.sql")}

--------------------------------------------------------------------------
(* schema_validator.py: OrchestratorCompatibilityChecker                   *)

INFO == "info"
WARNING == "warning"
ERROR == "error"
CRITICAL == "critical"

\* a ValidationIssue: its severity, category, column (<<None>> when it has
\* none) and, for a business rule issue, the position of the rule (else 0)
ValidationIssue(severity, category, column_name, rule) ==
    [severity |-> severity, category |-> category, column_name |-> column_name,
     rule |-> rule]

\* exact fractions for the float arithmetic of the score
RECURSIVE Gcd(_, _)
Gcd(a, b) == IF b = 0 THEN a ELSE Gcd(b, a % b)

Fraction(n, d) ==
    LET g == Gcd(IF n < 0 THEN -n ELSE n, d)
    IN  [num |-> n \div g, den |-> d \div g]

Times(x, y) == Fraction(x.num * y.num, x.den * y.den)

Plus(x, y) == Fraction(x.num * y.den + y.num * x.den, x.den * y.den)

Minus(x, y) == Fraction(x.num * y.den - y.num * x.den, x.den * y.den)

Max(x, y) == IF x.num * y.den >= y.num * x.den THEN x ELSE y

\* _types_compatible: the alias groups
type_mappings ==
    { {Chars("bigserial"), Chars("int8"), Chars("bigint")},
      {Chars("int"), Chars("int4"), Chars("serial"), Chars("integer")},
      {Chars("varchar"), Chars("character varying"), Chars("text"), Chars("character")},
      {Chars("timestamptz"), Chars("timestamp with time zone")},
      {Chars("timestamp"), Chars("timestamp without time zone")},
      {Chars("json"), Chars("jsonb")},
      {Chars("decimal"), Chars("numeric")},
      {Chars("date")} }

_types_compatible(expected_type, actual_type) ==
    LET expected == Strip(Lower(expected_type))
        actual == Strip(Lower(actual_type))
    IN  IF expected = actual THEN TRUE
        ELSE IF \E compatible_types \in type_mappings :
                    expected \in compatible_types /\ actual \in compatible_types
        THEN TRUE
        ELSE IF Contains(expected, Chars("numeric")) \/ Contains(expected, Chars("decimal"))
        THEN Contains(actual, Chars("numeric")) \/ Contains(actual, Chars("decimal"))
        ELSE FALSE

\* \w of the regular expression, on the characters modelled
IsWordChar(c) ==
    \/ c = "_"
    \/ IsDigit(c)
    \/ \E k \in 1..26 : c = LowerCase[k] \/ c = UpperCase[k]

\* re.search(r"(\w+) should be '([^']+)'", rule): the positions of the
\* blank before "should" at which the expression matches
ShouldBeAt(rule) ==
    {k \in 2..Len(rule) :
        /\ IsWordChar(rule[k - 1])
        /\ StartsWith(SubSeq(rule, k, Len(rule)), Chars(" should be '"))
        /\ LET rest == SubSeq(rule, k + 12, Len(rule))
           IN  /\ rest # <<>>
               /\ rest[1] # "'"
               /\ \E q \in 2..Len(rest) : rest[q] = "'"}

\* the first group of the match: the run of word characters before position k
RECURSIVE WordBefore(_, _)
WordBefore(rule, k) ==
    IF k > 1 /\ IsWordChar(rule[k - 1])
    THEN WordBefore(rule, k - 1) \o <<rule[k - 1]>>
    ELSE <<>>

\* _validate_business_rule: the issues the rule at position n adds
_validate_business_rule(rule, n, schema) ==
    LET lower == Lower(rule)
    IN  IF Contains(lower, Chars("payload must contain"))
        THEN IF Chars("payload") \notin DOMAIN schema.columns
             THEN {ValidationIssue(ERROR, "business_rule", Chars("payload"), n)}
             ELSE IF schema.columns[Chars("payload")] # Chars("jsonb")
             THEN {ValidationIssue(WARNING, "business_rule", Chars("payload"), n)}
             ELSE {}
        ELSE IF Contains(lower, Chars("should follow")) /\ Contains(lower, Chars("pattern"))
        THEN {ValidationIssue(INFO, "business_rule", <<None>>, n)}
        ELSE IF Contains(lower, Chars("should be"))
        THEN IF ShouldBeAt(rule) # {}
             THEN {ValidationIssue(INFO, "business_rule",
                                   WordBefore(rule, Min(ShouldBeAt(rule))), n)}
             ELSE {}
        ELSE {}

\* is_valid with "and len(error_issues) == 0" added
is_valid_without_errors(issues, missing_columns) ==
    /\ {i \in issues : i.severity = CRITICAL} = {}
    /\ {i \in issues : i.severity = ERROR} = {}
    /\ missing_columns = {}

\* is_valid: no critical issue and no missing required column
is_valid(issues, missing_columns) ==
    /\ {i \in issues : i.severity = CRITICAL} = {}
    /\ missing_columns = {}

\* the score with the weights of the two parts exchanged
compatibility_score_weights_exchanged(total_required, missing_required, type_errors) ==
    IF total_required > 0
    THEN LET column_score == Fraction(total_required - missing_required, total_required)
             type_score == Max(Fraction(0, 1),
                               Minus(Fraction(1, 1),
                                     Times(Fraction(type_errors, 1), Fraction(2, 10))))
         IN  Plus(Times(column_score, Fraction(3, 10)), Times(type_score, Fraction(7, 10)))
    ELSE Fraction(1, 1)

\* the compatibility score of the normal path
compatibility_score(total_required, missing_required, type_errors) ==
    IF total_required > 0
    THEN LET column_score == Fraction(total_required - missing_required, total_required)
             type_score == Max(Fraction(0, 1),
                               Minus(Fraction(1, 1),
                                     Times(Fraction(type_errors, 1), Fraction(2, 10))))
         IN  Plus(Times(column_score, Fraction(7, 10)), Times(type_score, Fraction(3, 10)))
    ELSE Fraction(1, 1)

\* the issues of all business rules, in the order of the list
RECURSIVE BusinessRuleIssues(_, _, _)
BusinessRuleIssues(business_rules, n, schema) ==
    IF n > Len(business_rules) THEN {}
    ELSE _validate_business_rule(business_rules[n], n, schema)
            \cup BusinessRuleIssues(business_rules, n + 1, schema)

\* check_table_compatibility on the registry entry found and the live schema
\* (the lists built from sets are kept as sets: their order is not fixed)
check_table_compatibility(reqs, schema) ==
    IF ~reqs.defined
    THEN [returned |-> TRUE, valid |-> TRUE,
          issues |-> {ValidationIssue(WARNING, "compatibility", <<None>>, 0)},
          compatibility_score |-> Fraction(1, 1),
          missing_columns |-> {}, extra_columns |-> {}, type_mismatches |-> {}]
    ELSE IF ~schema.exists
    THEN [returned |-> TRUE, valid |-> FALSE,
          issues |-> {ValidationIssue(CRITICAL, "existence", <<None>>, 0)},
          compatibility_score |-> Fraction(0, 1),
          missing_columns |-> reqs.required_columns,
          extra_columns |-> {}, type_mismatches |-> {}]
    ELSE
      LET actual_column_names == DOMAIN schema.columns
          required_columns == reqs.required_columns
          missing_columns == required_columns \ actual_column_names
          optional_columns == reqs.optional_columns
          missing_optional == optional_columns \ actual_column_names
          extra_columns == actual_column_names \ (required_columns \cup optional_columns)
          type_mismatches ==
              {<<c, reqs.column_types[c], schema.columns[c]>> :
                  c \in {x \in DOMAIN reqs.column_types \cap actual_column_names :
                            ~_types_compatible(reqs.column_types[x], schema.columns[x])}}
          issues ==
              {ValidationIssue(ERROR, "missing_column", c, 0) : c \in missing_columns}
              \cup {ValidationIssue(INFO, "missing_optional_column", c, 0) : c \in missing_optional}
              \cup {ValidationIssue(WARNING, "extra_column", c, 0) : c \in extra_columns}
              \cup {ValidationIssue(ERROR, "type_mismatch", m[1], 0) : m \in type_mismatches}
              \cup BusinessRuleIssues(reqs.business_rules, 1, schema)
      IN  [returned |-> TRUE,
           valid |-> is_valid(issues, missing_columns),
           issues |-> issues,
           compatibility_score |->
               compatibility_score(Cardinality(required_columns),
                                   Cardinality(missing_columns \cap required_columns),
                                   Cardinality(type_mismatches)),
           missing_columns |-> missing_columns,
           extra_columns |-> extra_columns,
           type_mismatches |-> type_mismatches]

\* a set of column names, and a column_types dictionary, from their texts
Columns(names) == {Chars(n) : n \in names}

ColumnTypes(pairs) ==
    [c \in {Chars(pairs[k][1]) : k \in DOMAIN pairs} |->
        Chars(pairs[CHOOSE k \in DOMAIN pairs : Chars(pairs[k][1]) = c][2])]

\* ORCHESTRATOR_REQUIREMENTS["sony"]["l0_sony_raw"]
l0_sony_raw ==
    [defined |-> TRUE,
     required_columns |-> Columns({"id", "source_name", "batch_id", "extraction_date",
                                   "payload", "created_at"}),
     optional_columns |-> Columns({"file_name", "file_path", "record_hash", "content",
                                   "report_type", "report_period", "legal_entity",
                                   "loaded_at"}),
     column_types |-> ColumnTypes(<< <<"id", "bigint">>, <<"source_name", "text">>,
                                     <<"batch_id", "text">>, <<"extraction_date", "date">>,
                                     <<"payload", "jsonb">>,
                                     <<"created_at", "timestamp with time zone">> >>),
     business_rules |-> << Chars("payload must contain product_sku, country_code fields"),
                           Chars("batch_id should follow sony_batch_* pattern"),
                           Chars("source_name should be 'sony_domo'") >>]

\* ORCHESTRATOR_REQUIREMENTS["steam"]["steam_highwatermark"]
steam_highwatermark ==
    [defined |-> TRUE,
     required_columns |-> Columns({"source_name", "watermark_date", "grace_days", "updated_at"}),
     optional_columns |-> Columns({"notes"}),
     column_types |-> ColumnTypes(<< <<"source_name", "text">>, <<"watermark_date", "date">>,
                                     <<"grace_days", "smallint">>,
                                     <<"updated_at", "timestamp with time zone">> >>),
     business_rules |-> <<>>]

\* the lookup of a platform or table the registry does not hold
no_requirements == [defined |-> FALSE]

MaxRules == 2

\* business rule texts: the three forms the registry uses, and texts a
\* registry entry may hold that the validator does not recognise
RuleTexts ==
    { Chars("payload must contain product_sku, country_code fields"),
      Chars("batch_id should follow sony_batch_* pattern"),
      Chars("source_name should be 'sony_domo'"),
      Chars("Payload Must Contain sku"),
      Chars("net_usd must not be negative"),
      Chars("status should be active"),
      Chars("SOURCE_NAME SHOULD BE 'x'") }

\* a registry entry with the business rules given
RuleEntry(rules) ==
    [defined |-> TRUE,
     required_columns |-> Columns({"batch_id", "payload"}),
     optional_columns |-> {},
     column_types |-> ColumnTypes(<< <<"payload", "jsonb">> >>),
     business_rules |-> rules]

\* a registry entry without required columns
OptionalOnlyEntry ==
    [defined |-> TRUE,
     required_columns |-> {},
     optional_columns |-> Columns({"notes"}),
     column_types |-> ColumnTypes(<< <<"notes", "text">> >>),
     business_rules |-> <<>>]

RegistryEntries ==
    {l0_sony_raw, steam_highwatermark, no_requirements, OptionalOnlyEntry}
    \cup {RuleEntry(rules) : rules \in {<<>>} \cup AllSeqs(RuleTexts, MaxRules)}

\* another type of the same alias group where there is one, else another type
OtherType(expected) ==
    CASE expected = Chars("bigint") -> Chars("int8")
      [] expected = Chars("text") -> Chars("character varying")
      [] expected = Chars("jsonb") -> Chars("json")
      [] expected = Chars("timestamp with time zone") -> Chars("timestamptz")
      [] OTHER -> Chars("integer")

\* the types a live column may have: the expected one, another one, a wrong one
TypeChoices(reqs, c) ==
    IF c \in DOMAIN reqs.column_types
    THEN {reqs.column_types[c], OtherType(reqs.column_types[c]), Chars("boolean")}
    ELSE {Chars("text")}

\* the tables over the columns U: each column absent or of one of its types
RECURSIVE LiveColumns(_, _)
LiveColumns(reqs, U) ==
    IF U = {} THEN {<<>>}
    ELSE LET c == CHOOSE x \in U : TRUE
         IN  {IF t = <<None>> THEN f ELSE (c :> t) @@ f :
                f \in LiveColumns(reqs, U \ {c}),
                t \in TypeChoices(reqs, c) \cup {<<None>>}}

\* the live schemas a table of the entry may have: no table, or a table
\* over the typed columns, the required ones, one optional and one undeclared
LiveSchemas(reqs) ==
    IF ~reqs.defined
    THEN {[exists |-> FALSE, columns |-> <<>>],
          [exists |-> TRUE, columns |-> (Chars("id") :> Chars("bigint"))]}
    ELSE {[exists |-> FALSE, columns |-> <<>>]} \cup
         {[exists |-> TRUE, columns |-> f] :
            f \in LiveColumns(reqs, DOMAIN reqs.column_types \cup reqs.required_columns
                                   \cup Columns({"notes", "zzz"})) \ {<<>>}}

\* a checker about to check one table
InitChecker ==
    /\ op = "none"
    /\ DdlIdle
    /\ ResolverIdle
    /\ ManagerIdle
    /\ ValidatorIdle
    /\ PoolIdle
    /\ RetryIdle
    /\ requirements \in RegistryEntries
    /\ actual_schema \in LiveSchemas(requirements)
    /\ report = [returned |-> FALSE]

\* checker.check_table_compatibility(table_name, platform)
CheckTableCompatibility ==
    /\ op = "none"
    /\ op' = "check_table_compatibility"
    /\ report' = check_table_compatibility(requirements, actual_schema)
    /\ UNCHANGED <<ddlVars, resVars, mgrVars, fsVars, poolVars, retryVars, requirements,
                   actual_schema>>

NextChecker == CheckTableCompatibility

SpecChecker == InitChecker /\ [][NextChecker]_vars

--------------------------------------------------------------------------
(* Claims about the compatibility checker                                  *)

\* the required columns the live table lacks
MissingRequired == requirements.required_columns \ DOMAIN actual_schema.columns

CriticalIssues == {i \in report.issues : i.severity = CRITICAL}

\* C13: for a table with requirements that exists, the report is valid
\* exactly when it holds no critical issue and no required column is
\* missing; the missing required columns are listed; extra columns are
\* warnings, missing optional columns are infos, and these and type
\* mismatches never make the report invalid by themselves.
C13_ValidIffNoCriticalAndNoMissing ==
    (op = "check_table_compatibility" /\ requirements.defined /\ actual_schema.exists) =>
        /\ report.missing_columns = MissingRequired
        /\ report.valid <=> (CriticalIssues = {} /\ MissingRequired = {})
        /\ MissingRequired = {} => report.valid
        /\ \A c \in DOMAIN actual_schema.columns \
                    (requirements.required_columns \cup requirements.optional_columns) :
                ValidationIssue(WARNING, "extra_column", c, 0) \in report.issues
        /\ \A c \in requirements.optional_columns \ DOMAIN actual_schema.columns :
                ValidationIssue(INFO, "missing_optional_column", c, 0) \in report.issues

\* a valid report with a type mismatch, an extra column and a missing
\* optional column
C13_Witness ==
    /\ op = "check_table_compatibility"
    /\ requirements = steam_highwatermark
    /\ report.valid
    /\ report.type_mismatches # {}
    /\ report.extra_columns # {}
    /\ Chars("notes") \notin DOMAIN actual_schema.columns

\* the score of the formula, as a fraction of denominator 50 * required:
\* 0.7 (required - missing) / required + 0.3 max(0, 1 - 0.2 mismatches)
FormulaNumerator(required, missing, mismatches) ==
    35 * (required - missing)
        + 3 * required * (IF mismatches < 5 THEN 5 - mismatches ELSE 0)

ScoreFollowsFormula ==
    LET required == Cardinality(requirements.required_columns)
        score == report.compatibility_score
    IN  /\ required > 0 =>
                score.num * 50 * required =
                    score.den * FormulaNumerator(required,
                                                 Cardinality(report.missing_columns),
                                                 Cardinality(report.type_mismatches))
        /\ required = 0 => score = [num |-> 1, den |-> 1]

\* the live columns are exactly the required ones and no type mismatches
ExactMatch ==
    /\ actual_schema.exists
    /\ DOMAIN actual_schema.columns = requirements.required_columns
    /\ report.type_mismatches = {}

ScoreInUnitInterval ==
    /\ report.compatibility_score.num >= 0
    /\ report.compatibility_score.num <= report.compatibility_score.den

\* C14 as stated: on every return of check_table_compatibility for a table
\* with requirements the score equals the formula (1.0 without required
\* columns), is 1.0 on an exact match, and lies in [0, 1].
C14_ScoreFollowsFormulaOnEveryReturn ==
    (op = "check_table_compatibility" /\ requirements.defined) =>
        /\ ScoreFollowsFormula
        /\ ExactMatch => report.compatibility_score = [num |-> 1, den |-> 1]
        /\ ScoreInUnitInterval

\* C14, amended: the formula holds for a table that exists; a table that
\* does not exist scores 0.0 and a table without requirements 1.0; an exact
\* match scores 1.0; every return lies in [0, 1].
C14_ScoreFollowsFormulaForExistingTable ==
    op = "check_table_compatibility" =>
        /\ (requirements.defined /\ actual_schema.exists) => ScoreFollowsFormula
        /\ (requirements.defined /\ ~actual_schema.exists) =>
                report.compatibility_score = [num |-> 0, den |-> 1]
        /\ ~requirements.defined => report.compatibility_score = [num |-> 1, den |-> 1]
        /\ (requirements.defined /\ ExactMatch) =>
                report.compatibility_score = [num |-> 1, den |-> 1]
        /\ ScoreInUnitInterval

\* all required columns present and six type mismatches: the type part is
\* cut at 0 and the score is 0.7
C14_Witness ==
    /\ op = "check_table_compatibility"
    /\ requirements = l0_sony_raw
    /\ actual_schema.exists
    /\ Cardinality(report.type_mismatches) = 6
    /\ report.compatibility_score = [num |-> 7, den |-> 10]

\* the rule has one of the three forms the validator evaluates
Recognised(rule) ==
    \/ Contains(Lower(rule), Chars("payload must contain"))
    \/ Contains(Lower(rule), Chars("should follow")) /\ Contains(Lower(rule), Chars("pattern"))
    \/ ShouldBeAt(rule) # {}

\* C15: every business rule the validator cannot resolve adds an issue of
\* severity info; no business rule adds a critical issue, keeps the check
\* from returning, or changes the valid flag.
C15_UnresolvableRulesDegradeToInfo ==
    (op = "check_table_compatibility" /\ requirements.defined /\ actual_schema.exists) =>
        /\ report.returned
        /\ \A n \in 1..Len(requirements.business_rules) :
                ~Recognised(requirements.business_rules[n]) =>
                    \E i \in report.issues : i.rule = n /\ i.severity = INFO
        /\ \A i \in report.issues : i.rule > 0 => i.severity # CRITICAL
        /\ report.valid <=> (MissingRequired = {})


--------------------------------------------------------------------------
\* DatabaseValidator (validator.py): connection, schema and readiness

\* the platforms validate_schema and auto_repair_schema take when none is given
default_platforms == <<"steam", "epic", "sony">>

PlatformList(platform_list) == IF platform_list = <<None>> THEN default_platforms ELSE platform_list

Range(seq) == {seq[k] : k \in 1..Len(seq)}

\* MockSchemaValidator.validate_platform_schema: always valid and unflagged
mock_validate_platform_schema == "valid"

\* MockSchemaValidator.auto_repair_schema: always a success
mock_auto_repair_schema == "success"

\* what the schema validator behind SharedSchemaValidator may do for one
\* platform: report it valid (as the stand-in does), report it invalid,
\* report it valid and flag it for repair, or raise
SchemaAnswers == {mock_validate_platform_schema, "invalid", "flagged", "raises"}

\* what its auto_repair_schema may do for one platform
RepairAnswers == {mock_auto_repair_schema, "raises"}

\* override_config.get(field, now)
GetOr(override, field, now) == IF field \in DOMAIN override THEN override[field] ELSE now

\* the five assignments of get_connection_config: the fields take the
\* overrides, the connection string stays what it was
ApplyOverride(c, override) ==
    [c EXCEPT !.host = GetOr(override, "host", c.host),
              !.port = GetOr(override, "port", c.port),
              !.database = GetOr(override, "database", c.database),
              !.user = GetOr(override, "user", c.user),
              !.password = GetOr(override, "password", c.password)]

\* DatabaseValidator.get_connection_config: the resolver's configuration with
\* the overrides applied and the connection string rebuilt
get_connection_config(env, env_type, up, override) ==
    LET got == get_database_config(env, env_type, up)
        c == got.config
    IN  IF DOMAIN override = {} \/ c.kind # "config" THEN got
        ELSE [got EXCEPT !.config = __post_init__(ApplyOverride(c, override))]

\* ConnectionConfigResolver.validate_connection: the TCP test, then
\* psycopg2.connect and SELECT 1
validate_connection(c, up, db) ==
    IF ~_test_connection_host(c.host, c.port, up)
    THEN [valid |-> FALSE, message |-> "Cannot connect"]
    ELSE IF db = "ok" THEN [valid |-> TRUE, message |-> "Connection successful"]
    ELSE IF db = "ImportError" THEN [valid |-> TRUE, message |-> "Network connectivity confirmed"]
    ELSE IF db = "psycopg2.Error" THEN [valid |-> FALSE, message |-> "Database connection failed"]
    ELSE [valid |-> FALSE, message |-> "Connection validation error"]

\* one entry of the dictionary validate_schema builds
PlatformResult(answer) ==
    IF answer = "raises"
    THEN [valid |-> FALSE, repair_needed |-> TRUE, repair_applied |-> "none"]
    ELSE [valid |-> answer \in {"valid", "flagged"}, repair_needed |-> answer = "flagged",
          repair_applied |-> "none"]

\* DatabaseValidator.validate_schema: one entry for each platform value
validate_schema(platform_list, answers) ==
    [p \in Range(PlatformList(platform_list)) |-> PlatformResult(answers[p])]

\* DatabaseValidator.auto_repair_schema: one entry for each platform value
auto_repair_schema(platform_list, answers) ==
    [p \in Range(PlatformList(platform_list)) |-> [success |-> answers[p] = "success"]]

\* a check that ignores the repair_needed flag of a valid platform
needs_repair_invalid_only(schema_results) ==
    \E p \in DOMAIN schema_results : ~schema_results[p].valid

\* needs_repair = any(repair_needed or not valid)
needs_repair(schema_results) ==
    \E p \in DOMAIN schema_results :
        schema_results[p].repair_needed \/ ~schema_results[p].valid

\* a verdict that asks for one valid platform only
schema_valid_any(schema_results) ==
    \E p \in DOMAIN schema_results : schema_results[p].valid

\* schema_valid = all(result.get('valid', False))
schema_valid(schema_results) ==
    \A p \in DOMAIN schema_results : schema_results[p].valid

\* the loop that adds repair_applied to the platforms of the second validation
AddRepairInfo(schema_results, repair_results) ==
    [p \in DOMAIN schema_results |->
        IF p \in DOMAIN repair_results
        THEN [schema_results[p] EXCEPT !.repair_applied =
                IF repair_results[p].success THEN "success" ELSE "failure"]
        ELSE schema_results[p]]

\* the dataclass with its __post_init__
DatabaseValidationResult(conn_valid, conn_message, schema_ok, schema_results, c) ==
    [returned |-> TRUE, connection_valid |-> conn_valid,
     connection_message |-> conn_message, schema_valid |-> schema_ok,
     schema_results |-> schema_results, config_used |-> c,
     ready_for_etl |-> conn_valid /\ schema_ok]

\* a validator that goes on to the schema whatever the connection
ReturnsAtOnceNever(conn_valid) == FALSE

\* if not conn_valid: return
ReturnsAtOnce(conn_valid) == ~conn_valid

\* validate_full_stack after the configuration was resolved: the result and
\* the schema-side calls made, in order
validate_full_stack(c, up, db, platform_list, repair, answers) ==
    LET conn == validate_connection(c, up, db)
        first == validate_schema(platform_list, answers.first)
        repair_results == auto_repair_schema(platform_list, answers.repair)
        second == AddRepairInfo(validate_schema(platform_list, answers.second), repair_results)
    IN  IF ReturnsAtOnce(conn.valid)
        THEN [calls |-> <<>>,
              validation |-> DatabaseValidationResult(FALSE, conn.message, FALSE, <<>>, c)]
        ELSE IF needs_repair(first) /\ repair
        THEN [calls |-> <<"validate_schema", "auto_repair_schema", "validate_schema">>,
              validation |-> DatabaseValidationResult(conn.valid, conn.message,
                                                      schema_valid(second), second, c)]
        ELSE [calls |-> <<"validate_schema">>,
              validation |-> DatabaseValidationResult(conn.valid, conn.message,
                                                      schema_valid(first), first, c)]

\* the explicit connection variables of the validator's process
ValidatorChoices ==
    << <<"DB_HOST", {<<None>>, Chars("h1")}>>,
       <<"DB_PORT", {Chars("5432"), Chars("x")}>>,
       <<"DB_NAME", {Chars("d1")}>>,
       <<"DB_USER", {Chars("u1")}>>,
       <<"DB_PASSWORD", {Chars("p1")}>> >>

Overrides == {<<>>, [host |-> Chars("h9")]}

PlatformLists == {<<None>>, <<>>, <<"steam">>, <<"sony", "steam">>}

ValidatorEndpoints ==
    {<<Chars("localhost"), 5432>>, <<Chars("h1"), 5432>>, <<Chars("h9"), 5432>>}

DbAnswers == {"ok", "ImportError", "psycopg2.Error", "Exception"}

\* the answers the schema validator holds ready for one call: the first
\* validation's, and the repairs' and the second validation's (asked for
\* validity only) when the first one leads to a repair; one set of answers
\* is enough for a call whose connection fails, which asks for none
AnswerChoices(platform_list, repair, conn_valid) ==
    LET ps == Range(PlatformList(platform_list))
    IN  IF ~conn_valid THEN {[first |-> [p \in ps |-> "valid"]]}
        ELSE UNION {IF needs_repair(validate_schema(platform_list, f)) /\ repair
                    THEN [first : {f}, repair : [ps -> RepairAnswers],
                          second : [ps -> {"valid", "invalid"}]]
                    ELSE {[first |-> f]} : f \in [ps -> SchemaAnswers]}

InitValidator ==
    /\ op = "none"
    /\ DdlIdle
    /\ ManagerIdle
    /\ CheckerIdle
    /\ PoolIdle
    /\ RetryIdle
    /\ environ \in Environs(ValidatorChoices)
    /\ environ0 = <<>>
    /\ dockerenv = FALSE
    /\ dns = {}
    /\ env_file = NoFile
    /\ dotenv = FALSE
    /\ environment = None
    /\ reachable = {}
    /\ probes = <<>>
    /\ config = [kind |-> "none"]
    /\ diagnostics = [returned |-> FALSE]
    /\ override_config \in Overrides
    /\ platforms_arg \in PlatformLists
    /\ auto_repair \in BOOLEAN
    /\ db_answer \in DbAnswers
    /\ schema_answers = <<>>
    /\ schema_calls = <<>>
    /\ validation = [returned |-> FALSE]

\* DatabaseValidator(override_config): builds its resolver
NewDatabaseValidator ==
    /\ op = "none"
    /\ op' = "DatabaseValidator"
    /\ environ0' = environ
    /\ environment' = _detect_environment(environ, dockerenv, dns)
    /\ environ' = _load_env_file(environ, env_file, dotenv)
    /\ UNCHANGED <<ddlVars, mgrVars, valVars, dockerenv, dns, env_file, dotenv, reachable,
                   probes, config, diagnostics>>

\* validator.validate_full_stack(platforms, auto_repair)
ValidateFullStack ==
    /\ op = "DatabaseValidator"
    /\ op' = "validate_full_stack"
    /\ \E up \in SUBSET ValidatorEndpoints :
        LET got == get_connection_config(environ, environment, up, override_config)
            c == got.config
        IN  /\ reachable' = up
            /\ probes' = got.probes
            /\ config' = c
            /\ IF c.kind = "ValueError"
               THEN /\ validation' = [returned |-> FALSE, raised |-> "ValueError"]
                    /\ schema_calls' = <<>>
                    /\ schema_answers' = <<>>
               ELSE \E answers \in AnswerChoices(platforms_arg, auto_repair,
                                                 validate_connection(c, up, db_answer).valid) :
                    LET run == validate_full_stack(c, up, db_answer, platforms_arg,
                                                   auto_repair, answers)
                    IN  /\ validation' = run.validation
                        /\ schema_calls' = run.calls
                        /\ schema_answers' = IF run.calls = <<>> THEN <<>> ELSE answers
    /\ UNCHANGED <<ddlVars, mgrVars, chkVars, poolVars, retryVars, environ, environ0,
                   dockerenv, dns, env_file,
                   dotenv, environment, override_config, platforms_arg, auto_repair, db_answer,
                   diagnostics>>

NextValidator == NewDatabaseValidator \/ ValidateFullStack

SpecValidator == InitValidator /\ [][NextValidator]_vars

\* the call's connection validation fails: the host does not answer, or the
\* database refuses the connection or the query
ConnectionFails ==
    /\ config.kind = "config"
    /\ \/ <<config.host, config.port>> \notin reachable
       \/ db_answer \in {"psycopg2.Error", "Exception"}

ConnectionValid ==
    /\ config.kind = "config"
    /\ <<config.host, config.port>> \in reachable
    /\ db_answer \in {"ok", "ImportError"}

\* C16: when connection validation fails, validate_full_stack returns a
\* result with connection_valid, schema_valid and ready_for_etl all false and
\* no schema results, and it calls neither the schema validation nor the
\* repair
C16_ConnectionFailureShortCircuits ==
    (op = "validate_full_stack" /\ ConnectionFails) =>
        /\ validation.returned
        /\ ~validation.connection_valid
        /\ ~validation.schema_valid
        /\ ~validation.ready_for_etl
        /\ DOMAIN validation.schema_results = {}
        /\ schema_calls = <<>>

\* the host answers and the database refuses, with repair allowed and the
\* default platforms
C16_Witness ==
    /\ op = "validate_full_stack"
    /\ config.kind = "config"
    /\ <<config.host, config.port>> \in reachable
    /\ db_answer = "psycopg2.Error"
    /\ auto_repair
    /\ platforms_arg = <<None>>
    /\ validation.returned
    /\ schema_calls = <<>>

RepairInvoked == \E k \in 1..Len(schema_calls) : schema_calls[k] = "auto_repair_schema"

\* some platform of the first validation is not reported valid and unflagged
FirstPassAsksRepair ==
    \E p \in DOMAIN schema_answers.first : schema_answers.first[p] # "valid"

AllReportsValid ==
    \A p \in DOMAIN validation.schema_results : validation.schema_results[p].valid

\* C18 as stated: every result returned has ready_for_etl = connection_valid
\* and schema_valid, and schema_valid true exactly when every report of the
\* final schema results is valid
C18_ReadyIsConnectionAndAllReports ==
    (op = "validate_full_stack" /\ validation.returned) =>
        /\ validation.ready_for_etl <=> (validation.connection_valid /\ validation.schema_valid)
        /\ validation.schema_valid <=> AllReportsValid

\* C18 amended: every result returned has ready_for_etl = connection_valid
\* and schema_valid; schema_valid is true exactly when the connection is valid
\* and every report of the final schema results is valid
C18_ReadyIsConnectionAndAllReportsOfValidConnection ==
    (op = "validate_full_stack" /\ validation.returned) =>
        /\ validation.ready_for_etl <=> (validation.connection_valid /\ validation.schema_valid)
        /\ validation.schema_valid <=> (validation.connection_valid /\ AllReportsValid)
        /\ validation.connection_valid <=> ConnectionValid

\* a valid connection and an empty platform list: ready with no report at all
C18_Witness ==
    /\ op = "validate_full_stack"
    /\ validation.returned
    /\ validation.connection_valid
    /\ platforms_arg = <<>>
    /\ schema_calls = <<"validate_schema">>
    /\ validation.schema_valid
    /\ validation.ready_for_etl

--------------------------------------------------------------------------
\* ConnectionPool (connection_pool_legacy.py): scoped connections and cursors

\* max_connections of the pool
MaxConnections == 1

PoolConnections == 1..MaxConnections

Threads == {"t1", "t2"}

\* no with-block was entered yet; connection 0 is Python's None
NoScope ==
    [pc |-> "idle", via |-> "none", connection |-> 0, events |-> <<>>, exit |-> "none",
     pool_at_exit |-> FALSE]

\* a finally clause that gives the connection back after a normal exit only
ReturnsConnectionOnNormalExit(connection, pool_set, block) ==
    connection # 0 /\ pool_set /\ block = "ok"

\* finally: if connection and self.pool
ReturnsConnection(connection, pool_set, block) == connection # 0 /\ pool_set

\* except Exception: if connection: connection.rollback()
RollsBack(connection, block) == connection # 0 /\ block = "Exception"

\* how the with-statement ends for the caller
ExitKind(block) ==
    IF block = "ok" THEN "normal" ELSE IF block = "Exception" THEN "error" ELSE "interrupt"

\* get_connection from the point where its try block stops, with block the
\* way it stopped: "ok", "Exception" or "BaseException" (an exception that
\* except Exception does not catch); the except and finally clauses
LeaveConnection(scope, block, pool_set) ==
    [scope EXCEPT
        !.pc = "exited",
        !.events = scope.events
                    \o (IF RollsBack(scope.connection, block) THEN <<"rollback">> ELSE <<>>)
                    \o (IF ReturnsConnection(scope.connection, pool_set, block)
                        THEN <<"putconn">> ELSE <<>>),
        !.exit = ExitKind(block),
        !.pool_at_exit = pool_set]

\* the connections the pool holds idle after the scope was left
IdleAfter(idle, scope) ==
    IF \E k \in 1..Len(scope.events) : scope.events[k] = "putconn"
    THEN idle \cup {scope.connection} ELSE idle

\* get_connection up to its yield: the pool test, getconn and
\* set_isolation_level; a scope that is left at once when one of them raises
EnterConnection(via, pool_set, idle, c, isolation) ==
    IF ~pool_set
    THEN LeaveConnection([NoScope EXCEPT !.via = via], "Exception", pool_set)
    ELSE IF idle = {}
    THEN LeaveConnection([NoScope EXCEPT !.via = via, !.events = <<"getconn">>],
                         "Exception", pool_set)
    ELSE LET got == [NoScope EXCEPT !.via = via, !.connection = c,
                                    !.events = <<"getconn", "set_isolation_level">>]
         IN  IF isolation = "raises" THEN LeaveConnection(got, "Exception", pool_set)
             ELSE [got EXCEPT !.pc = "in_block"]

\* get_cursor up to its yield: connection.cursor() inside get_connection's block
EnterCursor(pool_set, idle, c, isolation, cursor) ==
    LET scope == EnterConnection("get_cursor", pool_set, idle, c, isolation)
        opened == [scope EXCEPT !.events = scope.events \o <<"cursor">>]
    IN  IF scope.pc # "in_block" THEN scope
        ELSE IF cursor = "raises" THEN LeaveConnection(opened, "Exception", pool_set)
        ELSE opened

\* get_cursor after its yield: cursor.close() in the finally clause, whose
\* exception replaces the way the block stopped
LeaveCursor(scope, block, close, pool_set) ==
    LeaveConnection([scope EXCEPT !.events = scope.events \o <<"cursor.close">>],
                    IF close = "raises" THEN "Exception" ELSE block, pool_set)

Leave(scope, block, close, pool_set) ==
    IF scope.via = "get_cursor" THEN LeaveCursor(scope, block, close, pool_set)
    ELSE LeaveConnection(scope, block, pool_set)

BlockEnds == {"ok", "Exception", "BaseException"}

\* connection_timeout of the pool's configuration (DB_TIMEOUT), in ticks
connection_timeout == 2

\* the last tick the clock reaches
MaxClock == 3

\* no getconn() was called yet
NoAcquisition == [called |-> FALSE, asked |-> 0, answered |-> 0, at_capacity |-> FALSE]

\* the time self.pool.getconn() keeps its caller: get_connection hands it no
\* timeout and does not wait or try again, and ThreadedConnectionPool answers
\* under its lock at once, with a connection or with
\* PoolError("connection pool exhausted"); connection_timeout went to
\* psycopg2.connect as connect_timeout when the pool was built
GetconnWait(idle, timeout) == 0

\* what the call of getconn() in get_connection looked like: no call when
\* self.pool is not set
Acquisition(pool_set, idle, now) ==
    IF ~pool_set THEN NoAcquisition
    ELSE [called |-> TRUE, asked |-> now,
          answered |-> now + GetconnWait(idle, connection_timeout),
          at_capacity |-> idle = {}]

InitPool ==
    /\ op = "none"
    /\ DdlIdle
    /\ ResolverIdle
    /\ ManagerIdle
    /\ CheckerIdle
    /\ ValidatorIdle
    /\ RetryIdle
    /\ live_pool = [open |-> TRUE, idle |-> PoolConnections]
    /\ scopes = [t \in Threads |-> NoScope]
    /\ clock = 0
    /\ acquisition = [t \in Threads |-> NoAcquisition]

\* a thread enters "with pool.get_connection()" or "with pool.get_cursor()"
Enter(t) ==
    /\ scopes[t].pc # "in_block"
    /\ \E via \in {"get_connection", "get_cursor"}, isolation \in {"ok", "raises"},
          cursor \in {"ok", "raises"},
          c \in IF live_pool.idle = {} THEN {0} ELSE live_pool.idle :
        LET scope == IF via = "get_cursor"
                     THEN EnterCursor(live_pool.open, live_pool.idle, c, isolation, cursor)
                     ELSE EnterConnection(via, live_pool.open, live_pool.idle, c, isolation)
        IN  /\ op' = via
            /\ scopes' = [scopes EXCEPT ![t] = scope]
            /\ live_pool' = [live_pool EXCEPT
                                !.idle = IdleAfter(live_pool.idle \ {scope.connection}, scope)]
            /\ acquisition' = [acquisition EXCEPT
                                ![t] = Acquisition(live_pool.open, live_pool.idle, clock)]
    /\ UNCHANGED <<ddlVars, resVars, mgrVars, chkVars, fsVars, retryVars, clock>>

\* the thread's block stops and the with-statement is left
LeaveBlock(t) ==
    /\ scopes[t].pc = "in_block"
    /\ \E block \in BlockEnds, close \in {"ok", "raises"} :
        LET scope == Leave(scopes[t], block, close, live_pool.open)
        IN  /\ op' = "exit"
            /\ scopes' = [scopes EXCEPT ![t] = scope]
            /\ live_pool' = [live_pool EXCEPT !.idle = IdleAfter(live_pool.idle, scope)]
    /\ UNCHANGED <<ddlVars, resVars, mgrVars, chkVars, fsVars, retryVars, clock, acquisition>>

\* pool.close(): closeall() and self.pool = None
ClosePool ==
    /\ live_pool.open
    /\ op' = "close"
    /\ live_pool' = [open |-> FALSE, idle |-> {}]
    /\ UNCHANGED <<ddlVars, resVars, mgrVars, chkVars, fsVars, retryVars, scopes, clock,
                   acquisition>>

NextPool == (\E t \in Threads : Enter(t) \/ LeaveBlock(t)) \/ ClosePool

SpecPool == InitPool /\ [][NextPool]_vars

\* time passes
Tick ==
    /\ clock < MaxClock
    /\ clock' = clock + 1
    /\ UNCHANGED <<op, ddlVars, resVars, mgrVars, chkVars, fsVars, retryVars, live_pool,
                   scopes, acquisition>>

NextAcquire == (\E t \in Threads : Enter(t) \/ LeaveBlock(t)) \/ Tick

\* threads that take and give back connections of an open pool while time passes
SpecAcquire == InitPool /\ [][NextAcquire]_vars

Count(events, e) == Cardinality({k \in 1..Len(events) : events[k] = e})

Obtained(scope) == scope.connection # 0

\* the connection was given back once, as the last thing, and after the
\* rollback when the block was left with an error
ReturnedOnce(scope) ==
    /\ Count(scope.events, "putconn") = 1
    /\ scope.events[Len(scope.events)] = "putconn"
    /\ scope.exit = "error" =>
            /\ Count(scope.events, "rollback") = 1
            /\ scope.events[Len(scope.events) - 1] = "rollback"

\* a connection is held by one block at most and is not idle meanwhile
HeldByOne ==
    \A t \in Threads : scopes[t].pc = "in_block" =>
        /\ Count(scopes[t].events, "putconn") = 0
        /\ scopes[t].connection \notin live_pool.idle
        /\ \A u \in Threads \ {t} :
                scopes[u].pc = "in_block" => scopes[u].connection # scopes[t].connection

\* C19 as stated: every connection obtained through get_connection is given
\* back to the pool exactly once whichever way the block is left, after a
\* rollback when it is left with an error
C19_ConnectionReturnedOnceOnEveryExit ==
    /\ HeldByOne
    /\ \A t \in Threads :
        (scopes[t].pc = "exited" /\ Obtained(scopes[t])) => ReturnedOnce(scopes[t])

\* C19 amended: the same for every block left while the pool is not closed;
\* a block left after pool.close() rolls back on an error and gives nothing
\* back
C19_ConnectionReturnedOnceWhilePoolOpen ==
    /\ HeldByOne
    /\ \A t \in Threads :
        (scopes[t].pc = "exited" /\ Obtained(scopes[t])) =>
            IF scopes[t].pool_at_exit THEN ReturnedOnce(scopes[t])
            ELSE /\ Count(scopes[t].events, "putconn") = 0
                 /\ scopes[t].exit = "error" =>
                        scopes[t].events[Len(scopes[t].events)] = "rollback"

\* a cursor block left with an error while the pool is open: rolled back,
\* then given back, and the connection is idle again
C19_Witness ==
    \E t \in Threads :
        /\ scopes[t].pc = "exited"
        /\ scopes[t].via = "get_cursor"
        /\ scopes[t].exit = "error"
        /\ scopes[t].pool_at_exit
        /\ scopes[t].events = <<"getconn", "set_isolation_level", "cursor", "cursor.close",
                                "rollback", "putconn">>
        /\ scopes[t].connection \in live_pool.idle

\* the connections checked out of the pool
CheckedOut == {scopes[t].connection : t \in {u \in Threads : scopes[u].pc = "in_block"}}

\* the thread's latest acquisition failed because the pool was at capacity
PoolExhausted(t) ==
    /\ acquisition[t].called
    /\ acquisition[t].at_capacity
    /\ scopes[t].pc = "exited"
    /\ scopes[t].connection = 0
    /\ scopes[t].exit = "error"

\* no more blocks hold a connection than max_connections, and no two the same
WithinCapacity ==
    /\ Cardinality({t \in Threads : scopes[t].pc = "in_block"}) <= MaxConnections
    /\ HeldByOne

\* C23: under concurrent acquisition the connections checked out never exceed
\* max_connections, and an acquisition made at capacity blocks for the
\* configured timeout before it fails with the pool-exhaustion error
C23_BoundedAndBlocksUntilTimeout ==
    /\ WithinCapacity
    /\ \A t \in Threads :
        PoolExhausted(t) =>
            acquisition[t].answered - acquisition[t].asked = connection_timeout

\* the part of C23 the pool keeps: never more than max_connections
C23_NeverAboveCapacity == WithinCapacity

\* a thread was refused while the other held the only connection, at the tick
\* it asked
C23_RefusedAtOnce ==
    \E t \in Threads, u \in Threads :
        /\ t # u
        /\ scopes[u].pc = "in_block"
        /\ PoolExhausted(t)
        /\ acquisition[t].asked = acquisition[t].answered
        /\ acquisition[t].asked = clock

--------------------------------------------------------------------------
\* ConnectionPool.execute_with_retry

\* the largest retry_attempts of the configurations tried (the default is 3)
MaxAttempts == 3

\* retry_delay, in units of time
RetryDelays == {1, 3}

\* what one attempt may meet: get_cursor raises before the operation is
\* invoked, the operation raises, the commit raises, cursor.close() raises
\* while the with-statement is left, or nothing raises
AttemptOutcomes(read_only) ==
    {"acquire_raises", "operation_raises", "close_raises", "ok"}
        \cup (IF read_only THEN {} ELSE {"commit_raises"})

\* the get_cursor block of one attempt, from its entry to its exit
AttemptScope(met) ==
    IF met = "acquire_raises" THEN EnterCursor(TRUE, {}, 0, "ok", "ok")
    ELSE Leave(EnterCursor(TRUE, {1}, 1, "ok", "ok"),
               IF met \in {"operation_raises", "commit_raises"} THEN "Exception" ELSE "ok",
               IF met = "close_raises" THEN "raises" ELSE "ok", TRUE)

\* the attempt ends in the except clause
AttemptFails(met) == AttemptScope(met).exit # "normal"

\* the operation is invoked once the cursor was yielded
Invoked(met) == met # "acquire_raises"

\* a delay that does not grow
BackoffDelayConstant(retry_delay, n) == retry_delay

\* time.sleep(self.config.retry_delay * (2 ** attempt))
BackoffDelay(retry_delay, n) == retry_delay * (2 ^ n)

\* if not read_only: cursor.connection.commit(), reached when the operation
\* returned
Commits(met, read_only) == ~read_only /\ met \in {"ok", "commit_raises", "close_raises"}

\* the exception raised in attempt n (0-based; -1 outside the loop) by what
\* the attempt met
RaisedIn(n, met) == [attempt |-> n, error |-> met]

\* a loop that sleeps after the last failed attempt too
SleepsBeforeNextAlways(n, retry_attempts) == TRUE

\* if attempt < self.config.retry_attempts - 1
SleepsBeforeNext(n, retry_attempts) == n < retry_attempts - 1

\* the value the operation returns when invoked in attempt n (0-based)
OperationResult(n) == [attempt |-> n]

InitRetry ==
    /\ op = "none"
    /\ DdlIdle
    /\ ResolverIdle
    /\ ManagerIdle
    /\ CheckerIdle
    /\ ValidatorIdle
    /\ PoolIdle
    /\ \E read_only \in BOOLEAN :
        /\ retry_config \in [retry_attempts : 0..MaxAttempts, retry_delay : RetryDelays,
                             read_only : {read_only}]
        /\ plan \in [1..retry_config.retry_attempts -> AttemptOutcomes(read_only)]
    /\ attempt = 0
    /\ invocations = <<>>
    /\ sleeps = <<>>
    /\ retried = [kind |-> "none"]
    /\ commits = 0
    /\ all_reports = <<>>

\* one iteration of the for loop, with the raise that follows the last one
RetryAttempt ==
    /\ retried.kind = "none"
    /\ attempt < retry_config.retry_attempts
    /\ op' = "execute_with_retry"
    /\ LET met == plan[attempt + 1]
       IN  /\ invocations' = IF Invoked(met) THEN Append(invocations, attempt)
                             ELSE invocations
           /\ commits' = IF Commits(met, retry_config.read_only) THEN commits + 1
                         ELSE commits
           /\ IF ~AttemptFails(met)
              THEN /\ retried' = [kind |-> "returned", value |-> OperationResult(attempt)]
                   /\ UNCHANGED <<attempt, sleeps>>
              ELSE /\ sleeps' = IF SleepsBeforeNext(attempt, retry_config.retry_attempts)
                                THEN Append(sleeps,
                                            BackoffDelay(retry_config.retry_delay, attempt))
                                ELSE sleeps
                   /\ attempt' = attempt + 1
                   /\ retried' = IF attempt + 1 < retry_config.retry_attempts THEN retried
                                 ELSE [kind |-> "raised", value |-> RaisedIn(attempt, met)]
    /\ UNCHANGED <<ddlVars, resVars, mgrVars, chkVars, fsVars, poolVars, retry_config, plan,
                   all_reports>>

\* retry_attempts = 0: the loop is empty and raise last_exception raises None
RetryNothing ==
    /\ retried.kind = "none"
    /\ retry_config.retry_attempts = 0
    /\ op' = "execute_with_retry"
    /\ retried' = [kind |-> "raised", value |-> RaisedIn(-1, "TypeError")]
    /\ UNCHANGED <<ddlVars, resVars, mgrVars, chkVars, fsVars, poolVars, retry_config, plan,
                   attempt, invocations, sleeps, commits, all_reports>>

NextRetry == RetryAttempt \/ RetryNothing

SpecRetry == InitRetry /\ [][NextRetry]_vars

\* the operation raises in the attempts 1..k-1 and attempt k succeeds
FailsThenSucceeds(k) ==
    /\ \A i \in 1..(k - 1) : plan[i] = "operation_raises"
    /\ plan[k] = "ok"

\* C20: for every k in 1..retry_attempts, when the operation raises in the
\* attempts 1..k-1 and attempt k succeeds, execute_with_retry returns what
\* the operation returned in attempt k, has invoked it exactly k times, once
\* in each attempt, and has slept retry_delay x 2^i for i = 0..k-2 in this
\* order and no other time
C20_ReturnsAfterKInvocationsWithBackoff ==
    \A k \in 1..retry_config.retry_attempts :
        (FailsThenSucceeds(k) /\ retried.kind # "none") =>
            /\ retried = [kind |-> "returned", value |-> OperationResult(k - 1)]
            /\ invocations = [i \in 1..k |-> i - 1]
            /\ sleeps = [i \in 1..(k - 1) |-> retry_config.retry_delay * (2 ^ (i - 1))]

\* three attempts allowed, two failures of the operation, then a success:
\* the third result after sleeping 3 and 6
C20_Witness ==
    /\ retry_config.retry_attempts = 3
    /\ retry_config.retry_delay = 3
    /\ ~retry_config.read_only
    /\ FailsThenSucceeds(3)
    /\ retried = [kind |-> "returned", value |-> OperationResult(2)]
    /\ Len(invocations) = 3
    /\ sleeps = <<3, 6>>

\* the sleeps of n failed attempts that were each followed by another one
BackoffOf(n) == [i \in 1..n |-> retry_config.retry_delay * (2 ^ (i - 1))]

\* C21: when every attempt fails, execute_with_retry has slept after each
\* attempt but the last and raises the exception of the last attempt, and
\* when the failures are all the operation's it has invoked the operation
\* exactly retry_attempts times; it returns only from a successful attempt
C21_ExhaustedRetriesRaiseLastFailure ==
    retried.kind # "none" =>
        /\ ((\A i \in DOMAIN plan : plan[i] # "ok") /\ retry_config.retry_attempts > 0) =>
            /\ retried = [kind |-> "raised",
                          value |-> RaisedIn(retry_config.retry_attempts - 1,
                                             plan[retry_config.retry_attempts])]
            /\ sleeps = BackoffOf(retry_config.retry_attempts - 1)
            /\ (\A i \in DOMAIN plan : plan[i] = "operation_raises") =>
                    invocations = [i \in 1..retry_config.retry_attempts |-> i - 1]
        /\ retried.kind = "returned" =>
            /\ attempt < retry_config.retry_attempts
            /\ plan[attempt + 1] = "ok"
            /\ retried.value = OperationResult(attempt)
        /\ retry_config.retry_attempts = 0 => retried.kind = "raised"

\* three attempts, the operation raising in each: three invocations, the
\* sleeps 1 and 2, and the third exception raised
C21_Witness ==
    /\ retry_config.retry_attempts = 3
    /\ retry_config.retry_delay = 1
    /\ plan = <<"operation_raises", "operation_raises", "operation_raises">>
    /\ retried = [kind |-> "raised", value |-> RaisedIn(2, "operation_raises")]
    /\ invocations = <<0, 1, 2>>
    /\ sleeps = <<1, 2>>

--------------------------------------------------------------------------
\* schema validation on the pool: _get_table_schema and validate_all_tables

\* execute_with_retry from attempt n on, as one function of what the attempts
\* meet; acc holds the invocations, sleeps and commits made and the last
\* exception
RECURSIVE RetryFrom(_, _, _, _)
RetryFrom(cfg, met, n, acc) ==
    IF n >= cfg.retry_attempts
    THEN [retried |-> [kind |-> "raised", value |-> acc.last],
          invocations |-> acc.invocations, sleeps |-> acc.sleeps, commits |-> acc.commits]
    ELSE LET now == [acc EXCEPT
                        !.invocations = IF Invoked(met[n + 1]) THEN Append(@, n) ELSE @,
                        !.commits = IF Commits(met[n + 1], cfg.read_only) THEN @ + 1 ELSE @]
         IN  IF ~AttemptFails(met[n + 1])
             THEN [retried |-> [kind |-> "returned", value |-> OperationResult(n)],
                   invocations |-> now.invocations, sleeps |-> now.sleeps,
                   commits |-> now.commits]
             ELSE RetryFrom(cfg, met, n + 1,
                            [now EXCEPT
                                !.sleeps = IF SleepsBeforeNext(n, cfg.retry_attempts)
                                           THEN Append(@, BackoffDelay(cfg.retry_delay, n))
                                           ELSE @,
                                !.last = RaisedIn(n, met[n + 1])])

execute_with_retry(cfg, met) ==
    RetryFrom(cfg, met, 0, [invocations |-> <<>>, sleeps |-> <<>>, commits |-> 0,
                            last |-> RaisedIn(-1, "TypeError")])

\* the step-by-step loop and the function give the same call
RetryStepsAgree ==
    retried.kind # "none" =>
        execute_with_retry(retry_config, plan)
            = [retried |-> retried, invocations |-> invocations, sleeps |-> sleeps,
               commits |-> commits]

\* DatabaseManager.execute_with_retry(operation): read_only when not given
default_read_only == FALSE

\* _get_table_schema: the queries run by execute_with_retry(get_schema); None
\* when the table has no column or the call raised
_get_table_schema(schema, cfg, met) ==
    LET run == execute_with_retry([cfg EXCEPT !.read_only = default_read_only], met)
    IN  [schema |-> IF run.retried.kind = "returned" THEN schema
                    ELSE [exists |-> FALSE, columns |-> <<>>],
         commits |-> run.commits]

\* check_table_compatibility with its query: nothing is asked of the
\* database for a table without requirements
CheckOnPool(reqs, schema, cfg, met) ==
    IF ~reqs.defined
    THEN [report |-> check_table_compatibility(reqs, schema), commits |-> 0]
    ELSE LET got == _get_table_schema(schema, cfg, met)
         IN  [report |-> check_table_compatibility(reqs, got.schema), commits |-> got.commits]

\* the registry, with one table kept for each platform
ORCHESTRATOR_REQUIREMENTS ==
    [steam |-> [steam_highwatermark |-> steam_highwatermark],
     sony |-> [l0_sony_raw |-> l0_sony_raw]]

\* the tables of a platform in the order of the registry; none for a
\* platform the registry does not hold
TablesOf(platform) ==
    IF platform = "steam" THEN <<"steam_highwatermark">>
    ELSE IF platform = "sony" THEN <<"l0_sony_raw">>
    ELSE <<>>

\* validate_all_tables: the platforms when none is given
default_validation_platforms == <<"steam", "sony">>

\* the <<platform, table>> pairs validate_all_tables checks, in order
RECURSIVE TablePairs(_)
TablePairs(platform_list) ==
    IF platform_list = <<>> THEN <<>>
    ELSE [k \in 1..Len(TablesOf(Head(platform_list))) |->
            <<Head(platform_list), TablesOf(Head(platform_list))[k]>>]
         \o TablePairs(Tail(platform_list))

RECURSIVE Sum(_)
Sum(seq) == IF seq = <<>> THEN 0 ELSE Head(seq) + Sum(Tail(seq))

\* validate_all_tables: one report per "platform.table" key (a pair here), and the commits
\* of all checks; live gives each table's schema and met what its query meets
validate_all_tables(platform_list, live, cfg, met) ==
    LET pairs == TablePairs(IF platform_list = <<None>> THEN default_validation_platforms
                            ELSE platform_list)
        check(k) == CheckOnPool(ORCHESTRATOR_REQUIREMENTS[pairs[k][1]][pairs[k][2]],
                                live[pairs[k][2]], cfg, met[pairs[k][2]])
    IN  [reports |-> [key \in {pairs[k] : k \in 1..Len(pairs)} |->
                        check(CHOOSE k \in 1..Len(pairs) : pairs[k] = key).report],
         commits |-> Sum([k \in 1..Len(pairs) |-> check(k).commits])]

\* a live table with the columns and types the entry asks for
ExactSchema(reqs) == [exists |-> TRUE, columns |-> reqs.column_types]

NoTable == [exists |-> FALSE, columns |-> <<>>]

\* what the attempts of one query may meet under a configuration
Plans(cfg) == [1..cfg.retry_attempts -> AttemptOutcomes(cfg.read_only)]

ValidationPlatformLists == {<<None>>, <<>>, <<"steam">>, <<"sony", "steam">>, <<"epic">>}

TableNames == {"steam_highwatermark", "l0_sony_raw"}

Entry(table) == IF table = "l0_sony_raw" THEN l0_sony_raw ELSE steam_highwatermark

InitQuery ==
    /\ op = "none"
    /\ DdlIdle
    /\ ResolverIdle
    /\ ManagerIdle
    /\ ValidatorIdle
    /\ PoolIdle
    /\ requirements \in {no_requirements, steam_highwatermark, l0_sony_raw}
    /\ actual_schema \in IF requirements.defined THEN {NoTable, ExactSchema(requirements)}
                         ELSE {NoTable}
    /\ report = [returned |-> FALSE]
    /\ retry_config \in [retry_attempts : 0..MaxAttempts, retry_delay : {1},
                         read_only : {default_read_only}]
    /\ plan \in Plans(retry_config)
    /\ attempt = 0
    /\ invocations = <<>>
    /\ sleeps = <<>>
    /\ retried = [kind |-> "none"]
    /\ commits = 0
    /\ all_reports = <<>>

\* checker.check_table_compatibility(table_name, platform) on a database
CheckTableOnPool ==
    /\ op = "none"
    /\ op' = "check_table_compatibility"
    /\ LET run == CheckOnPool(requirements, actual_schema, retry_config, plan)
       IN  /\ report' = run.report
           /\ commits' = commits + run.commits
    /\ UNCHANGED <<ddlVars, resVars, mgrVars, fsVars, poolVars, requirements, actual_schema,
                   retry_config, plan, attempt, invocations, sleeps, retried, all_reports>>

\* validate_all_tables(db_manager, platforms), the query of every table
\* meeting what plan says
ValidateAllTables ==
    /\ op = "none"
    /\ op' = "validate_all_tables"
    /\ \E platform_list \in ValidationPlatformLists, live \in [TableNames -> BOOLEAN] :
        LET run == validate_all_tables(
                        platform_list,
                        [t \in TableNames |-> IF live[t] THEN ExactSchema(Entry(t)) ELSE NoTable],
                        retry_config, [t \in TableNames |-> plan])
        IN  /\ all_reports' = run.reports
            /\ commits' = commits + run.commits
    /\ UNCHANGED <<ddlVars, resVars, mgrVars, fsVars, poolVars, chkVars, retry_config, plan,
                   attempt, invocations, sleeps, retried>>

NextQuery == CheckTableOnPool \/ ValidateAllTables

SpecQuery == InitQuery /\ [][NextQuery]_vars

\* C22: no commit is issued on any connection during
\* check_table_compatibility or validate_all_tables
C22_ValidationNeverCommits == commits = 0

--------------------------------------------------------------------------
\* ConnectionConfigResolver.get_diagnostics (resolver.py)

\* str.replace(old, new): every occurrence of old, found from the left and not
\* overlapping; with an empty old, new is put before every character and at
\* the end
RECURSIVE Replace(_, _, _)
Replace(s, old, new) ==
    IF old = <<>>
    THEN new \o (IF s = <<>> THEN <<>> ELSE <<Head(s)>> \o Replace(Tail(s), old, new))
    ELSE LET i == Find(s, old, 0)
         IN  IF i = -1 THEN s
             ELSE SubSeq(s, 1, i) \o new
                    \o Replace(SubSeq(s, i + Len(old) + 1, Len(s)), old, new)

\* the mask that stands for the password
PasswordMask == Chars("***")

\* config.connection_string.replace(config.password, '***')
RenderConnectionString(c) == Replace(c.connection_string, c.password, PasswordMask)

\* os.environ.get(name, 'Not set')
GetOrNotSet(env, name) ==
    IF Chars(name) \in DOMAIN env THEN env[Chars(name)] ELSE Chars("Not set")

\* _run_network_diagnostics: the tested endpoints that answered
_run_network_diagnostics(c, up) ==
    {e \in {<<Chars("localhost"), 5432>>, <<Chars("127.0.0.1"), 5432>>,
            <<Chars("host.docker.internal"), 5432>>, <<c.host, c.port>>} :
        _test_connection_host(e[1], e[2], up)}

\* the dictionary get_diagnostics builds for the config c
get_diagnostics(env, env_type, c, up, db) ==
    [returned |-> TRUE,
     environment_detected |-> env_type,
     selected_config |-> [host |-> c.host, port |-> c.port, database |-> c.database,
                          connection_string |-> RenderConnectionString(c)],
     connection_valid |-> validate_connection(c, up, db).valid,
     validation_message |-> validate_connection(c, up, db).message,
     environment_variables |->
        [DB_HOST |-> GetOrNotSet(env, "DB_HOST"),
         POSTGRES_HOST |-> GetOrNotSet(env, "POSTGRES_HOST"),
         DB_PORT |-> GetOrNotSet(env, "DB_PORT"),
         COMPOSE_PROJECT_NAME |-> GetOrNotSet(env, "COMPOSE_PROJECT_NAME")],
     network_tests |-> _run_network_diagnostics(c, up)]

\* the explicit connection variables of the diagnosed processes: complete or
\* without a password, the password apart from the other fields or not
DiagnosticChoices ==
    << <<"DB_HOST", {Chars("h1"), Chars("dbhost")}>>,
       <<"DB_PORT", {Chars("5432"), Chars("x")}>>,
       <<"DB_NAME", {Chars("d1")}>>,
       <<"DB_USER", {Chars("u1"), Chars("admin")}>>,
       <<"DB_PASSWORD", {<<None>>, Chars("p1"), Chars("p2"), Chars("admin"), Chars("db"),
                         Chars("5432"), Chars("*")}>> >>

DiagnosticEndpoints ==
    {<<Chars("localhost"), 5432>>, <<Chars("127.0.0.1"), 5432>>, <<Chars("h1"), 5432>>}

\* a process whose resolver is asked for its diagnostics
InitDiagnostics ==
    /\ op = "none"
    /\ DdlIdle
    /\ ManagerIdle
    /\ ValidationIdle
    /\ environ \in Environs(DiagnosticChoices)
    /\ environ0 = <<>>
    /\ dockerenv = FALSE
    /\ dns = {}
    /\ env_file = NoFile
    /\ dotenv = FALSE
    /\ environment = None
    /\ reachable = {}
    /\ probes = <<>>
    /\ config = [kind |-> "none"]
    /\ diagnostics = [returned |-> FALSE]

\* resolver.get_diagnostics()
GetDiagnostics ==
    /\ op = "ConnectionConfigResolver"
    /\ op' = "get_diagnostics"
    /\ \E up \in SUBSET DiagnosticEndpoints, db \in DbAnswers :
        LET got == get_database_config(environ, environment, up)
        IN  /\ reachable' = up
            /\ probes' = got.probes
            /\ config' = got.config
            /\ diagnostics' = IF got.config.kind = "ValueError"
                              THEN [returned |-> FALSE, raised |-> "ValueError"]
                              ELSE get_diagnostics(environ, environment, got.config, up, db)
    /\ UNCHANGED <<ddlVars, mgrVars, valVars, environ, environ0, dockerenv, dns, env_file,
                   dotenv, environment>>

NextDiagnostics == NewResolver \/ GetDiagnostics

SpecDiagnostics == InitDiagnostics /\ [][NextDiagnostics]_vars

\* the URI of the config with the mask in the place of the password
MaskedUri(c) ==
    Chars("postgresql://") \o c.user \o Chars(":") \o PasswordMask \o Chars("@")
        \o c.host \o Chars(":") \o Str(c.port) \o Chars("/") \o c.database

DiagnosticPasswords == {Chars("p1"), Chars("p2"), Chars("admin")}

\* C24: the connection string get_diagnostics shows is the URI with '***' in
\* the place of the password and everything else unchanged; the password is
\* not in it, and a config that differs in the password only is shown the same
C24_RenderingMasksPasswordOnly ==
    diagnostics.returned =>
        LET shown == diagnostics.selected_config.connection_string
        IN  /\ shown = MaskedUri(config)
            /\ ~Contains(shown, config.password)
            /\ \A p \in DiagnosticPasswords :
                RenderConnectionString(ConnectionConfig(config.host, config.port,
                    config.database, config.user, p, config.environment)) = shown

\* the default config, whose user and password are both "postgres", is shown
\* with the mask in its scheme and in the place of its user as well
C24_DefaultConfigShownWrong ==
    /\ diagnostics.returned
    /\ config = DefaultConfig(Chars("localhost"), LOCAL_HOST)
    /\ diagnostics.selected_config.connection_string
            = Chars("***ql://***:***@localhost:5432/platform")

--------------------------------------------------------------------------
\* DatabaseValidator.get_connection_config with overrides of any fields

OverrideValues ==
    [host |-> Chars("h9"), port |-> 6000, database |-> Chars("d9"), user |-> Chars("u9"),
     password |-> Chars("p9")]

\* the dictionaries of overrides: one value for each field of a subset
OverridesOfAnyFields ==
    {[f \in fields |-> OverrideValues[f]] : fields \in SUBSET DOMAIN OverrideValues}

\* a validator built over some explicit variables with some overrides
InitOverride ==
    /\ op = "none"
    /\ DdlIdle
    /\ ManagerIdle
    /\ CheckerIdle
    /\ PoolIdle
    /\ RetryIdle
    /\ environ \in Environs(ValidatorChoices)
    /\ environ0 = <<>>
    /\ dockerenv = FALSE
    /\ dns = {}
    /\ env_file = NoFile
    /\ dotenv = FALSE
    /\ environment = None
    /\ reachable = {}
    /\ probes = <<>>
    /\ config = [kind |-> "none"]
    /\ diagnostics = [returned |-> FALSE]
    /\ override_config \in OverridesOfAnyFields
    /\ platforms_arg = <<None>>
    /\ auto_repair = FALSE
    /\ db_answer = "ok"
    /\ schema_answers = <<>>
    /\ schema_calls = <<>>
    /\ validation = [returned |-> FALSE]

\* validator.get_connection_config()
GetConnectionConfig ==
    /\ op = "DatabaseValidator"
    /\ op' = "get_connection_config"
    /\ \E up \in SUBSET ValidatorEndpoints :
        LET got == get_connection_config(environ, environment, up, override_config)
        IN  /\ reachable' = up
            /\ probes' = got.probes
            /\ config' = got.config
    /\ UNCHANGED <<ddlVars, mgrVars, valVars, environ, environ0, dockerenv, dns, env_file,
                   dotenv, environment, diagnostics>>

NextOverride == NewDatabaseValidator \/ GetConnectionConfig

SpecOverride == InitOverride /\ [][NextOverride]_vars

\* the URI of the fields of a config
UriOf(c) ==
    Chars("postgresql://") \o c.user \o Chars(":") \o c.password \o Chars("@")
        \o c.host \o Chars(":") \o Str(c.port) \o Chars("/") \o c.database

\* C25: every config get_database_config and get_connection_config return,
\* with overrides of any fields or with none, carries the URI of its own
\* user, password, host, port and database
C25_ConnectionStringOfCurrentFields ==
    config.kind = "config" => config.connection_string = UriOf(config)

\* a config resolved from the explicit variables whose host and password were
\* overridden: the URI has the new host and password and the resolved rest
C25_Witness ==
    /\ op = "get_connection_config"
    /\ DOMAIN override_config = {"host", "password"}
    /\ config.kind = "config"
    /\ config.connection_string = Chars("postgresql://u1:p9@h9:5432/d1")

--------------------------------------------------------------------------
\* DDLManager._clean_ddl_content (schema_manager.py)

\* the byte order mark, one character
BOM == "\\ufeff"

\* content[1:] when the content starts with the mark
WithoutBom(content) ==
    IF content # <<>> /\ Head(content) = BOM THEN Tail(content) ELSE content

\* the test of the loop: the stripped line is '*/' or starts with '*/'
SkippedLine(line) == Strip(line) = Chars("*/") \/ StartsWith(Strip(line), Chars("*/"))

\* _clean_ddl_content: the mark removed, then the lines the loop keeps
_clean_ddl_content(content) ==
    Join(SelectSeq(Split(WithoutBom(content), "\n"), LAMBDA line : ~SkippedLine(line)), "\n")

MaxCleanLines == 3

CleanLineSet ==
    { Chars("/*"), Chars(" c"), Chars("*/"), Chars("a;"), Chars(" */ b;"), Chars("/* c */") }

CleanContents ==
    LET texts == {Join(ls, "\n") : ls \in AllSeqs(CleanLineSet, MaxCleanLines)}
    IN  texts \cup {<<BOM>> \o t : t \in texts}

\* a DDL file's text, as read
InitClean ==
    /\ op = "none"
    /\ ddl_content \in CleanContents
    /\ DdlFresh
    /\ ResolverIdle
    /\ ManagerIdle
    /\ ValidationIdle

\* _clean_ddl_content(content)
CleanDdlContent ==
    /\ op = "none"
    /\ op' = "_clean_ddl_content"
    /\ cleaned' = _clean_ddl_content(ddl_content)
    /\ UNCHANGED <<ddl_content, statements, cuts, attempted, skipped, result, resVars,
                   mgrVars, valVars>>

NextClean == CleanDdlContent

SpecClean == InitClean /\ [][NextClean]_vars

\* whether a block comment is open at the end of s, read from position i
\* with open telling whether one is open there
RECURSIVE CommentOpen(_, _, _)
CommentOpen(s, i, open) ==
    IF i > Len(s) THEN open
    ELSE IF ~open /\ i < Len(s) /\ SubSeq(s, i, i + 1) = Chars("/*")
         THEN CommentOpen(s, i + 2, TRUE)
    ELSE IF open /\ i < Len(s) /\ SubSeq(s, i, i + 1) = Chars("*/")
         THEN CommentOpen(s, i + 2, FALSE)
    ELSE CommentOpen(s, i + 1, open)

\* line k begins with a closer that no opener before it matches
StrayCloser(lines, k) ==
    /\ StartsWith(Strip(lines[k]), Chars("*/"))
    /\ ~CommentOpen(Join(SubSeq(lines, 1, k - 1), "\n"), 1, FALSE)

\* the lines without the stray closers, in order
RECURSIVE WithoutStrayClosers(_, _)
WithoutStrayClosers(lines, k) ==
    IF k > Len(lines) THEN <<>>
    ELSE (IF StrayCloser(lines, k) THEN <<>> ELSE <<lines[k]>>)
            \o WithoutStrayClosers(lines, k + 1)

\* C26: cleaning removes a line that begins with '*/' only when no '/*'
\* before it is open; the closing line of a block comment and every other
\* line are kept as they are and in order
C26_OnlyStrayClosersRemoved ==
    op = "_clean_ddl_content" =>
        cleaned = Join(WithoutStrayClosers(Split(WithoutBom(ddl_content), "\n"), 1), "\n")

\* a block comment over two lines before a statement lost its closing line
C26_ClosingLineOfBlockRemoved ==
    /\ op = "_clean_ddl_content"
    /\ ddl_content = Chars("/*\n*/\na;")
    /\ cleaned = Chars("/*\na;")

--------------------------------------------------------------------------
\* _split_sql_statements on several statements, some with a $$-quoted body

MaxStatements == 3

\* well-formed statements, each ending in ";" at the end of a line: plain,
\* with a body opened and closed on one line, with a body over several lines
StatementForms ==
    { Chars("a;"),
      Chars("DO $$ b; $$;"),
      Chars("DO $$\nb;\n$$;"),
      Chars("CREATE f AS $$ b $$;") }

StatementSeqs == AllSeqs(StatementForms, MaxStatements)

SeveralStatements == {Join(ss, "\n") : ss \in StatementSeqs}

\* a DDL text of one to MaxStatements statements
InitSplitSeveral ==
    /\ op = "none"
    /\ ddl_content \in SeveralStatements
    /\ DdlFresh
    /\ ResolverIdle
    /\ ManagerIdle
    /\ ValidationIdle

SpecSplitSeveral == InitSplitSeveral /\ [][NextSplit]_vars

\* the number of ";" of s from position i on that stand outside every
\* dollar-quoted block, open being the delimiter of the block open at i
RECURSIVE StatementEnds(_, _, _)
StatementEnds(s, i, open) ==
    IF i > Len(s) THEN 0
    ELSE IF open = <<>>
         THEN IF s[i] = "$" /\ DelimiterAt(s, i) # <<>>
              THEN StatementEnds(s, i + Len(DelimiterAt(s, i)), DelimiterAt(s, i))
              ELSE (IF s[i] = ";" THEN 1 ELSE 0) + StatementEnds(s, i + 1, open)
    ELSE IF StartsWith(SubSeq(s, i, Len(s)), open)
         THEN StatementEnds(s, i + Len(open), <<>>)
         ELSE StatementEnds(s, i + 1, open)

\* C27: a text of N well-formed statements, each ending in ";" at a line end
\* and some holding a $$-quoted body closed on a later line or on the line
\* that opened it, is split into exactly N statements
C27_OneStatementForEach ==
    op = "_split_sql_statements" =>
        Len(statements) = StatementEnds(ddl_content, 1, <<>>)

\* a DO block opened and closed on one line swallowed the statement after it
C27_FollowingStatementMerged ==
    /\ op = "_split_sql_statements"
    /\ ddl_content = Chars("DO $$ b; $$;\na;")
    /\ statements = <<Chars("DO $$ b; $$;\na;")>>

\* the same with the block closed on a later line: two statements
C27_SplitAfterBlockOverLines ==
    /\ op = "_split_sql_statements"
    /\ ddl_content = Chars("DO $$\nb;\n$$;\na;")
    /\ statements = <<Chars("DO $$\nb;\n$$;"), Chars("a;")>>

--------------------------------------------------------------------------
\* DDLManager.get_ddl_files called on its own

\* manager.get_ddl_files() on a constructed manager: set(found_files) is
\* iterated in an order the names do not fix (the hash of a path changes
\* from one process to the next)
GetDdlFiles ==
    /\ op \in {"DDLManager", "get_ddl_files"}
    /\ manager = "DDLManager"
    /\ op' = "get_ddl_files"
    /\ \E order \in Orderings(FoundFiles(sql_directory)) :
        ddl_files' = get_ddl_files(sql_directory, order)
    /\ UNCHANGED <<ddlVars, resVars, valVars, sql_directory, database_up, manager, pool,
                   ddl_cache, results, _db_manager, db_managers, callers>>

NextDdlFiles == NewDDLManager \/ GetDdlFiles

SpecDdlFiles == InitManager /\ [][NextDdlFiles]_vars

\* C28: what get_ddl_files returns depends on the names of the files in the
\* SQL directory only: whatever the order in which the files are iterated,
\* the same file is selected under each key
C28_SelectionIndependentOfOrder ==
    op = "get_ddl_files" =>
        \A order \in Orderings(FoundFiles(sql_directory)) :
            get_ddl_files(sql_directory, order) = ddl_files

\* two legacy steam files of one key and no split file: the one iterated
\* first was selected, here the second by name
C28_FirstIteratedWins ==
    /\ op = "get_ddl_files"
    /\ sql_directory.files = {Chars("steam_ddl.sql"), Chars("steam_file_dimensions_ddl.sql")}
    /\ ddl_files = (Chars("steam_l0") :> Chars("steam_file_dimensions_ddl.sql"))

--------------------------------------------------------------------------
\* get_database_manager and close_database_manager (connection_pool_legacy.py)
\* called from several threads; the functions take no lock, so the threads'
\* steps interleave between the test of the global, the construction, the
\* assignment and the return

\* the calls of get_database_manager one thread makes at most
MaxCalls == 2

\* a thread outside get_database_manager that got nothing yet (-1)
NoCall == [pc |-> "idle", local |-> 0, returned |-> -1, calls |-> 0]

\* a process whose threads are about to ask for the global manager
InitSingleton ==
    /\ op = "none"
    /\ DdlIdle
    /\ ResolverIdle
    /\ ValidationIdle
    /\ sql_directory = [exists |-> FALSE, files |-> {}]
    /\ database_up \in BOOLEAN
    /\ manager = None
    /\ pool = [created |-> FALSE, connects |-> 0, open |-> 0]
    /\ ddl_files = <<>>
    /\ ddl_cache = {}
    /\ results = <<>>
    /\ _db_manager = 0
    /\ db_managers = <<>>
    /\ callers = [t \in Threads |-> NoCall]

SingletonUnchanged ==
    UNCHANGED <<ddlVars, resVars, valVars, sql_directory, database_up, manager, pool,
                ddl_files, ddl_cache, results>>

\* if _db_manager is None
TestGlobal(t) ==
    /\ callers[t].pc = "idle"
    /\ callers[t].calls < MaxCalls
    /\ op' = "get_database_manager"
    /\ callers' = [callers EXCEPT ![t].pc = IF _db_manager = 0 THEN "construct" ELSE "return",
                                  ![t].calls = @ + 1]
    /\ UNCHANGED <<_db_manager, db_managers>>
    /\ SingletonUnchanged

\* DatabaseManager(): a new instance with its own pool, or the exception of
\* the pool that cannot connect
Construct(t) ==
    /\ callers[t].pc = "construct"
    /\ op' = "get_database_manager"
    /\ IF database_up
       THEN /\ db_managers' = Append(db_managers, [pool_open |-> TRUE])
            /\ callers' = [callers EXCEPT ![t].pc = "assign",
                                          ![t].local = Len(db_managers) + 1]
       ELSE /\ db_managers' = db_managers
            /\ callers' = [callers EXCEPT ![t].pc = "idle"]
    /\ UNCHANGED _db_manager
    /\ SingletonUnchanged

\* _db_manager = <the new instance>
Assign(t) ==
    /\ callers[t].pc = "assign"
    /\ op' = "get_database_manager"
    /\ _db_manager' = callers[t].local
    /\ callers' = [callers EXCEPT ![t].pc = "return"]
    /\ UNCHANGED db_managers
    /\ SingletonUnchanged

\* return _db_manager
ReturnGlobal(t) ==
    /\ callers[t].pc = "return"
    /\ op' = "get_database_manager"
    /\ callers' = [callers EXCEPT ![t].pc = "idle", ![t].returned = _db_manager]
    /\ UNCHANGED <<_db_manager, db_managers>>
    /\ SingletonUnchanged

\* close_database_manager() with a manager set: its pool is closed and the
\* global is None again
CloseDatabaseManager(t) ==
    /\ callers[t].pc = "idle"
    /\ _db_manager # 0
    /\ op' = "close_database_manager"
    /\ db_managers' = [db_managers EXCEPT ![_db_manager].pool_open = FALSE]
    /\ _db_manager' = 0
    /\ UNCHANGED callers
    /\ SingletonUnchanged

NextSingleton ==
    \E t \in Threads :
        TestGlobal(t) \/ Construct(t) \/ Assign(t) \/ ReturnGlobal(t) \/ CloseDatabaseManager(t)

SpecSingleton == InitSingleton /\ [][NextSingleton]_vars

\* close_database_manager has closed no manager so far
NeverClosed == \A k \in DOMAIN db_managers : db_managers[k].pool_open

\* C29: under concurrent first calls of get_database_manager, and until
\* close_database_manager is called, one DatabaseManager with one pool is
\* created at most and every caller receives that instance
C29_OneManagerForAllCallers ==
    NeverClosed =>
        /\ Len(db_managers) <= 1
        /\ \A t \in Threads : callers[t].returned # -1 => callers[t].returned = 1

\* both threads found the global unset before either had assigned it: two
\* managers with two open pools, and the callers hold different instances
C29_TwoManagersCreated ==
    /\ NeverClosed
    /\ Len(db_managers) = 2
    /\ callers["t1"].returned # -1
    /\ callers["t2"].returned # -1
    /\ callers["t1"].returned # callers["t2"].returned

--------------------------------------------------------------------------
\* The resolver's constructor with classification and connection variables in
\* the .env file

OrderChoices ==
    << <<"DB_HOST", {<<None>>, Chars("h1")}>>,
       <<"DB_PORT", {Chars("5432")}>>,
       <<"DB_NAME", {Chars("d1")}>>,
       <<"DB_USER", {<<None>>, Chars("u1")}>>,
       <<"DB_PASSWORD", {Chars("p1")}>>,
       <<"CI", {<<None>>, Chars("1")}>> >>

OrderLineSet ==
    { Chars("DB_HOST=filehost"), Chars("DB_USER=fu"), Chars("CI=true"),
      Chars("DISABLE_DOCKER_DETECT=1"), Chars("COMPOSE_PROJECT_NAME=proj") }

OrderFiles == {NoFile} \cup {File(Join(ls, "\n")) : ls \in AllSeqs(OrderLineSet, MaxEnvLines)}

\* a process with some variables set and some only in its .env file
InitOrder ==
    /\ op = "none"
    /\ DdlIdle
    /\ ManagerIdle
    /\ ValidationIdle
    /\ environ \in Environs(OrderChoices)
    /\ environ0 = <<>>
    /\ dockerenv \in BOOLEAN
    /\ dns \in {{}, {Chars("db")}}
    /\ env_file \in OrderFiles
    /\ dotenv \in BOOLEAN
    /\ environment = None
    /\ reachable = {}
    /\ probes = <<>>
    /\ config = [kind |-> "none"]
    /\ diagnostics = [returned |-> FALSE]

SpecOrder == InitOrder /\ [][NextResolver]_vars

\* the names the .env file added to the process environment
FileOnly == DOMAIN environ \ DOMAIN environ0

\* the value of a connection field under its two names, the DB_* name first
FieldValue(env, names) ==
    IF Truthy(Get(env, Chars(names[1]))) THEN Get(env, Chars(names[1]))
    ELSE Get(env, Chars(names[2]))

\* every connection field has a value under one of its names
FieldsComplete(env) ==
    \A names \in {<<"DB_HOST", "POSTGRES_HOST">>, <<"DB_PORT", "POSTGRES_PORT">>,
                  <<"DB_NAME", "POSTGRES_DB">>, <<"DB_USER", "POSTGRES_USER">>,
                  <<"DB_PASSWORD", "POSTGRES_PASSWORD">>} :
        Truthy(FieldValue(env, names))

\* C30: the resolver's environment is the classification of the process
\* environment as it was before the .env file was loaded, at construction
\* and after get_database_config: the disable flag, a CI indicator or the
\* compose project name of the file change nothing; the host and the user
\* that only the file gives are those of the config get_database_config
\* returns, whose environment is that same classification
C30_ClassifiedBeforeEnvFile ==
    /\ op # "none" =>
            /\ environment = _detect_environment(environ0, dockerenv, dns)
            /\ ~CiIndicator(environ0) => environment # CI_CD
            /\ (~ComposeMarker(environ0) /\ ~ComposeNameResolves) =>
                    environment # DOCKER_COMPOSE
            /\ (~DisableFlag(environ0) /\ ~CiIndicator(environ0) /\ dockerenv) =>
                    environment = DOCKER_HOST
    /\ (op = "get_database_config" /\ FieldsComplete(environ)) =>
            /\ config.kind = "config"
            /\ probes = <<>>
            /\ config.environment = _detect_environment(environ0, dockerenv, dns)
            /\ Chars("DB_HOST") \in FileOnly => config.host = Chars("filehost")
            /\ Chars("DB_USER") \in FileOnly => config.user = Chars("fu")

\* the file gave a CI indicator and the host: the resolver of a bare host
\* stayed LocalHost and its config has the file's host
C30_Witness ==
    /\ op = "get_database_config"
    /\ env_file.text = Chars("CI=true\nDB_HOST=filehost")
    /\ FileOnly = {Chars("CI"), Chars("DB_HOST")}
    /\ environment = LOCAL_HOST
    /\ config.kind = "config"
    /\ config.host = Chars("filehost")
    /\ config.environment = LOCAL_HOST

==========================================================================
